---- MODULE Spec2Model ----
(***************************************************************************)
(* A model of the Druid query planner of plywood (DruidExternal): the      *)
(* choice of the native query shape, the lowering of splits to dimensions, *)
(* the nested group-by rewrite and the assembly of the query document.     *)
(*                                                                         *)
(* Names (labels, attribute names, output names) are sequences of          *)
(* one-character strings, so that prefix tests and concatenation are       *)
(* computed as the code computes them.  An expression is a record with an  *)
(* "op" field; chainable expressions carry "operand", chainable-unary ones *)
(* also "expression".  An optional field of a JSON document is a field     *)
(* that the record has or lacks.                                           *)
(***************************************************************************)
EXTENDS Integers, Sequences, FiniteSets, TLC

VARIABLES ext, result, calls, stream, intro

vars == <<ext, result, calls, stream, intro>>

(***************************************************************************)
(* Bounds of the model.                                                    *)
(***************************************************************************)
\* how many times getQueryAndPostTransform is called on one External
MaxCalls == 1
\* the largest limit value of a LimitExpression (limits are 1..MaxLimit)
MaxLimit == 1

(***************************************************************************)
(* Names.                                                                  *)
(***************************************************************************)
TIME_ATTRIBUTE == <<"_", "_", "t", "i", "m", "e">>

StartsWith(s, p) == Len(s) >= Len(p) /\ SubSeq(s, 1, Len(p)) = p

Empty == [f \in {} |-> 0]

Null == [op |-> "null"]

IsNull(x) == x = Null

(***************************************************************************)
(* Expressions.                                                            *)
(***************************************************************************)
Ref(name, type) == [op |-> "ref", name |-> name, type |-> type]

Literal(value, type) == [op |-> "literal", value |-> value, type |-> type]

Chain(op, operand, type) == [op |-> op, operand |-> operand, type |-> type]

Unary(op, operand, expression, type) ==
  [op |-> op, operand |-> operand, expression |-> expression, type |-> type]

ExprTRUE == Literal("true", "BOOLEAN")

\* Expression._ : the dataset the aggregates of an apply range over
MainRef == Ref(<<"_">>, "DATASET")

ApplyEx(operand, name, expression) ==
  [op |-> "apply", operand |-> operand, name |-> name, expression |-> expression,
   type |-> "DATASET"]

\* splits is a sequence of [name, expression] in the order of the split's keys
SplitEx(operand, splits) ==
  [op |-> "split", operand |-> operand, splits |-> splits, type |-> "DATASET"]

SortEx(expression, direction) ==
  [op |-> "sort", expression |-> expression, direction |-> direction]

HasOperand(ex) == "operand" \in DOMAIN ex

HasExpression(ex) == "expression" \in DOMAIN ex

IsRef(ex) == ex.op = "ref"

AggregateOps == {"count", "sum", "min", "max", "countDistinct", "customAggregate"}

isAggregate(ex) == ex.op \in AggregateOps

\* Expression.some with a callback that answers at the nodes in `stop` and
\* returns null elsewhere: the nodes the traversal visits.  A node at which
\* the callback answers is not descended into.
RECURSIVE Visited(_, _)
Visited(ex, stopOps) ==
  {ex} \cup
  (IF ex.op \in stopOps THEN {}
   ELSE (IF HasOperand(ex) THEN Visited(ex.operand, stopOps) ELSE {}) \cup
        (IF HasExpression(ex) THEN Visited(ex.expression, stopOps) ELSE {}))

\* every node of the expression tree
AllNodes(ex) == Visited(ex, {})

\* Expression.getFreeReferences: the names of the attribute references
getFreeReferences(ex) ==
  {n.name : n \in {m \in AllNodes(ex) : IsRef(m) /\ m.type # "DATASET"}}

\* External.isTimeRef
isTimeRef(e, ex) == IsRef(ex) /\ ex.name = e.timeAttribute

\* External.getAttributesInfo
getAttributesInfo(e, name) ==
  LET found == {i \in 1..Len(e.rawAttributes) : e.rawAttributes[i].name = name}
  IN e.rawAttributes[CHOOSE i \in found : TRUE]

unwrapSetType(type) == IF type = "SET/STRING" THEN "STRING" ELSE type

(***************************************************************************)
(* DruidExternal: the helpers of the planner.                              *)
(***************************************************************************)
isTimestampCompatibleSort(sort, label) ==
  IF IsNull(sort) THEN TRUE
  ELSE IF IsRef(sort.expression) THEN sort.expression.name = label
  ELSE FALSE

getQuerySelection_NoDefault(e) == e.querySelection

getQuerySelection(e) == IF e.querySelection = "undefined" THEN "any" ELSE e.querySelection

\* External.getIntelligentInflater / getSimpleInflater: the kind of inflater
getIntelligentInflater(ex) ==
  CASE ex.op = "timeBucket" -> "timeRange"
    [] ex.op = "numberBucket" -> "numberRange"
    [] ex.type = "TIME" -> "time"
    [] ex.type = "BOOLEAN" -> "boolean"
    [] ex.type = "SET/STRING" -> "setString"
    [] OTHER -> "none"

splitExpressionToGranularityInflater_AnyOperand(e, splitExpression) ==
  IF isTimeRef(e, splitExpression)
  THEN [found |-> TRUE, granularity |-> "none", inflater |-> "time"]
  ELSE IF splitExpression.op \in {"timeBucket", "timeFloor"}
       THEN [found |-> TRUE,
             granularity |-> [type |-> "period", period |-> splitExpression.duration,
                              timeZone |-> splitExpression.timezone],
             inflater |-> getIntelligentInflater(splitExpression)]
       ELSE [found |-> FALSE]

splitExpressionToGranularityInflater(e, splitExpression) ==
  IF isTimeRef(e, splitExpression)
  THEN [found |-> TRUE, granularity |-> "none", inflater |-> "time"]
  ELSE IF /\ splitExpression.op \in {"timeBucket", "timeFloor"}
          /\ isTimeRef(e, splitExpression.operand)
       THEN [found |-> TRUE,
             granularity |-> [type |-> "period", period |-> splitExpression.duration,
                              timeZone |-> splitExpression.timezone],
             inflater |-> getIntelligentInflater(splitExpression)]
       ELSE [found |-> FALSE]

makeOutputName_Unchanged(name) == name

makeOutputName(name) ==
  IF StartsWith(name, <<"_", "_">>) THEN <<"*", "*", "*">> \o name ELSE name

\* the applies named sortRefName, in order (Array.find takes the first)
AppliesNamed(e, sortRefName) ==
  SelectSeq(e.applies, LAMBDA apply : apply.name = sortRefName)

\* the callback of topNCompatibleSort answers at every FilterExpression:
\* does the filter's condition mention the time ref
FilterOnTime(e, ex) ==
  ex.op = "filter" /\ \E n \in AllNodes(ex.expression) : isTimeRef(e, n)

topNCompatibleSort_Always(e) == TRUE

topNCompatibleSort(e) ==
  IF IsNull(e.sort) THEN TRUE
  ELSE IF IsRef(e.sort.expression) /\ AppliesNamed(e, e.sort.expression.name) # <<>>
       THEN LET sortApply == AppliesNamed(e, e.sort.expression.name)[1]
            IN ~ \E n \in Visited(sortApply.expression, {"filter"}) : FilterOnTime(e, n)
       ELSE TRUE

isMinMaxTimeExpression_AnyOperand(e, applyExpression) ==
  applyExpression.op \in {"min", "max"}

isMinMaxTimeExpression(e, applyExpression) ==
  IF applyExpression.op \in {"min", "max"}
  THEN isTimeRef(e, applyExpression.expression)
  ELSE FALSE

(***************************************************************************)
(* The sub-builders the planner calls.                                     *)
(***************************************************************************)
\* DruidExtractionFnBuilder.expressionToExtractionFn: the operations an
\* extraction function exists for; every other expression is refused
ExtractionOps ==
  {"timeBucket", "timeFloor", "timePart", "numberBucket", "substr", "extract",
   "transformCase", "length", "fallback", "cardinality", "lookup"}

RECURSIVE canExtract(_)
canExtract(ex) ==
  \/ ex.op \in {"ref", "literal"}
  \/ /\ ex.op \in ExtractionOps
     /\ canExtract(ex.operand)
     /\ (HasExpression(ex) => ex.expression.op \in {"ref", "literal"})

expressionToExtractionFn(ex) ==
  IF Cardinality(getFreeReferences(ex)) > 1 \/ ~canExtract(ex)
  THEN [ok |-> FALSE, error |-> "can not convert to extractionFn"]
  ELSE IF ex.op = "ref"
       THEN [ok |-> TRUE,
             fn |-> IF ex.type = "BOOLEAN" THEN [type |-> "lookup"] ELSE Null]
       ELSE [ok |-> TRUE, fn |-> [type |-> ex.op]]

\* DruidExpressionBuilder.expressionToDruidExpression: the formula of an
\* expression, written as the sequence of the operations and names it is made of
RECURSIVE expressionToDruidExpression(_)
expressionToDruidExpression(ex) ==
  IF ex.op = "ref" THEN <<"ref">> \o ex.name
  ELSE IF ex.op = "literal" THEN <<"literal">>
  ELSE <<ex.op, "(">> \o expressionToDruidExpression(ex.operand)
       \o (IF HasExpression(ex) THEN <<",">> \o expressionToDruidExpression(ex.expression)
           ELSE <<>>)
       \o <<")">>

\* DruidExpressionBuilder.expressionTypeToOutputType
expressionTypeToOutputType(type) ==
  CASE type \in {"TIME", "TIME_RANGE"} -> "LONG"
    [] type \in {"NUMBER", "NUMBER_RANGE"} -> "DOUBLE"
    [] OTHER -> "STRING"

(***************************************************************************)
(* Split lowering.                                                         *)
(***************************************************************************)
\* makeExpression of expressionToDimensionInflater
makeExpression(e, expression, label) ==
  LET outputName == makeOutputName(label)
      outputType == expressionTypeToOutputType(expression.type)
      isRef == IsRef(expression)
      dimensionSrcName == IF isRef THEN outputName ELSE <<"v", ":">> \o outputName
  IN [ok |-> TRUE,
      virtualColumn |->
        IF isRef THEN Null
        ELSE [type |-> "expression", name |-> dimensionSrcName,
              expression |-> expressionToDruidExpression(expression),
              outputType |-> outputType],
      dimension |-> [type |-> "default", dimension |-> dimensionSrcName,
                     outputName |-> outputName, outputType |-> outputType],
      inflater |-> getIntelligentInflater(expression)]

isComplexFallback(expression) ==
  IF expression.op = "fallback"
  THEN IF expression.expression.op # "ref" THEN FALSE
       ELSE HasOperand(expression.operand) /\ HasOperand(expression.operand.operand)
  ELSE FALSE

\* the dimension of the extraction path (lines 1112-1127)
extractionDimension(e, expression, label, attributeInfo, extractionFn) ==
  LET dimName == IF attributeInfo.name = e.timeAttribute THEN TIME_ATTRIBUTE
                 ELSE attributeInfo.name
      base == [type |-> IF IsNull(extractionFn) THEN "default" ELSE "extraction",
               dimension |-> dimName,
               outputName |-> makeOutputName(label)]
      withFn == IF IsNull(extractionFn) THEN base
                ELSE base @@ [extractionFn |-> extractionFn]
  IN IF expression.type = "NUMBER"
     THEN withFn @@ [outputType |-> IF dimName = TIME_ATTRIBUTE THEN "LONG" ELSE "DOUBLE"]
     ELSE withFn

expressionToDimensionInflater(e, expression, label) ==
  LET freeReferences == getFreeReferences(expression)
  IN IF freeReferences = {}
     THEN LET x == expressionToExtractionFn(expression)
          IN IF ~x.ok THEN x
             ELSE [ok |-> TRUE, virtualColumn |-> Null,
                   dimension |-> [type |-> "extraction", dimension |-> TIME_ATTRIBUTE,
                                  outputName |-> makeOutputName(label),
                                  extractionFn |-> x.fn],
                   inflater |-> "none"]
     ELSE IF \/ Cardinality(freeReferences) > 1
             \/ \E n \in AllNodes(expression) : n.op = "then"
             \/ isComplexFallback(expression)
     THEN makeExpression(e, expression, label)
     ELSE LET referenceName == CHOOSE r \in freeReferences : TRUE
              lower(attributeInfo, x, simpleInflater, dimension) ==
             IF attributeInfo.unsplitable
             THEN [ok |-> FALSE, error |-> "references an un-splitable metric"]
             ELSE IF ~x.ok THEN makeExpression(e, expression, label)
             ELSE IF expression.op \in {"ref", "timeBucket", "timePart", "numberBucket"}
             THEN [ok |-> TRUE, virtualColumn |-> Null, dimension |-> dimension,
                   inflater |-> simpleInflater]
             ELSE IF expression.op = "cardinality"
             THEN [ok |-> TRUE, virtualColumn |-> Null, dimension |-> dimension,
                   inflater |-> "setCardinality"]
             ELSE IF \/ simpleInflater # "none"
                     \/ unwrapSetType(expression.type) \in {"STRING", "NULL"}
             THEN [ok |-> TRUE, virtualColumn |-> Null, dimension |-> dimension,
                   inflater |-> simpleInflater]
             ELSE [ok |-> FALSE, error |-> "could not convert to a Druid dimension"]
              extract(attributeInfo, x) ==
                lower(attributeInfo, x, getIntelligentInflater(expression),
                      extractionDimension(e, expression, label, attributeInfo, x.fn))
          IN extract(getAttributesInfo(e, referenceName),
                     expressionToExtractionFn(expression))

\* Expression.extractFromAnd: the conjuncts of an expression, and their
\* conjunction (Expression.and(...).simplify())
RECURSIVE Conjuncts(_)
Conjuncts(ex) ==
  IF ex.op = "and" THEN Conjuncts(ex.operand) \o Conjuncts(ex.expression) ELSE <<ex>>

RECURSIVE AndOf(_)
AndOf(exs) ==
  IF exs = <<>> THEN ExprTRUE
  ELSE IF Len(exs) = 1 THEN exs[1]
  ELSE Unary("and", AndOf(SubSeq(exs, 1, Len(exs) - 1)), exs[Len(exs)], "BOOLEAN")

\* the match function of expressionToDimensionInflaterHaving (lines 1171-1181)
constrainsLabel(hf, label) ==
  IF HasOperand(hf)
  THEN IF IsRef(hf.operand) /\ hf.operand.name = label
       THEN IF hf.op = "match" THEN TRUE
            ELSE IF hf.op = "is" THEN hf.expression.op = "literal"
            ELSE FALSE
       ELSE FALSE
  ELSE FALSE

\* extractFromAnd, were the rest lost once something is extracted
extractFromAnd_DropRest(havingFilter, label) ==
  LET cs == Conjuncts(havingFilter)
  IN [extract |-> AndOf(SelectSeq(cs, LAMBDA c : constrainsLabel(c, label))),
      rest |-> IF \E i \in 1..Len(cs) : constrainsLabel(cs[i], label) THEN ExprTRUE
               ELSE havingFilter]

\* havingFilter.extractFromAnd(...) (lines 1171-1181)
extractFromAnd(havingFilter, label) ==
  LET cs == Conjuncts(havingFilter)
  IN [extract |-> AndOf(SelectSeq(cs, LAMBDA c : constrainsLabel(c, label))),
      rest |-> AndOf(SelectSeq(cs, LAMBDA c : ~constrainsLabel(c, label)))]

expressionToDimensionInflaterHaving(e, expression, label, havingFilter) ==
  LET pushDown(d, dimensionInflater, er) ==
     IF ~d.ok THEN d
     ELSE IF expression.type # "SET/STRING" THEN dimensionInflater
     ELSE IF er.extract = ExprTRUE THEN dimensionInflater
     ELSE IF er.extract.op = "match"
     THEN [ok |-> TRUE, virtualColumn |-> Null,
           dimension |-> [type |-> "regexFiltered", delegate |-> d.dimension,
                          pattern |-> er.extract.regexp],
           inflater |-> d.inflater, having |-> er.rest]
     ELSE IF er.extract.op = "is"
     THEN [ok |-> TRUE, virtualColumn |-> Null,
           dimension |-> [type |-> "listFiltered", delegate |-> d.dimension,
                          values |-> IF er.extract.expression.type = "SET/STRING"
                                     THEN er.extract.expression.value
                                     ELSE <<er.extract.expression.value>>],
           inflater |-> d.inflater, having |-> er.rest]
     ELSE IF er.extract.op = "in"
     THEN [ok |-> TRUE, virtualColumn |-> Null,
           dimension |-> [type |-> "listFiltered", delegate |-> d.dimension,
                          values |-> er.extract.expression.value],
           inflater |-> d.inflater, having |-> er.rest]
     ELSE dimensionInflater
      withHaving(d) ==
        pushDown(d, d @@ [having |-> havingFilter], extractFromAnd(havingFilter, label))
  IN withHaving(expressionToDimensionInflater(e, expression, label))

(***************************************************************************)
(* SplitExpression.                                                        *)
(***************************************************************************)
isMultiSplit(split) == Len(split.splits) > 1

firstSplitName(split) == split.splits[1].name

firstSplitExpression(split) == split.splits[1].expression

hasKey(split, name) == \E i \in 1..Len(split.splits) : split.splits[i].name = name

splitKeys(split) == [i \in 1..Len(split.splits) |-> split.splits[i].name]

\* stands for the Infinity of Expression.maxPossibleSplitValues
Infinity == 1000000

maxPossibleSplitValues(ex) ==
  IF ex.type = "BOOLEAN" THEN 3
  ELSE IF ex.op = "timePart" THEN ex.maxValues
  ELSE Infinity

RECURSIVE maxBucketProduct(_, _)
maxBucketProduct(splits, i) ==
  IF i > Len(splits) THEN 1
  ELSE LET a == maxPossibleSplitValues(splits[i].expression)
           b == maxBucketProduct(splits, i + 1)
       IN IF a = Infinity \/ b = Infinity THEN Infinity ELSE a * b

maxBucketNumber(split) == maxBucketProduct(split.splits, 1)

\* External.postTransformFactory: what the transform is built from
postTransformFactory(inflaters, keys) ==
  [kind |-> "datum", inflaters |-> inflaters, keys |-> keys]

(***************************************************************************)
(* splitToDruid.                                                           *)
(***************************************************************************)
TopNMaxBuckets == 1000

\* the loop of the group-by path (lines 1231-1252) from split i on
RECURSIVE mapSplitsToDimensions(_, _, _, _)
mapSplitsToDimensions(e, splits, i, acc) ==
  IF i > Len(splits) \/ ~acc.ok THEN acc
  ELSE LET push(d) ==
          IF ~d.ok THEN d
          ELSE mapSplitsToDimensions(e, splits, i + 1,
                 [ok |-> TRUE,
                  virtualColumns |-> IF IsNull(d.virtualColumn) THEN acc.virtualColumns
                                     ELSE Append(acc.virtualColumns, d.virtualColumn),
                  dimensions |-> Append(acc.dimensions, d.dimension),
                  inflaters |-> IF d.inflater = "none" THEN acc.inflaters
                                ELSE Append(acc.inflaters, d.inflater),
                  having |-> d.having])
       IN push(expressionToDimensionInflaterHaving(e, splits[i].expression,
                                                   splits[i].name, acc.having))

splitToDruidGroupByOnly(e, split) ==
  LET groupBy(r) ==
     IF ~r.ok THEN r
     ELSE [ok |-> TRUE, queryType |-> "groupBy", virtualColumns |-> r.virtualColumns,
           dimensions |-> r.dimensions, timestampLabel |-> <<>>, granularity |-> "all",
           leftoverHavingFilter |-> r.having,
           postTransform |-> postTransformFactory(r.inflaters, splitKeys(split))]
  IN groupBy(mapSplitsToDimensions(e, split.splits, 1,
               [ok |-> TRUE, virtualColumns |-> <<>>, dimensions |-> <<>>,
                inflaters |-> <<>>, having |-> e.havingFilter]))

splitToDruidSingle(e, split) ==
  LET splitExpression == firstSplitExpression(split)
      label == firstSplitName(split)
      shape(granularityInflater, d, inflaters, virtualColumns) ==
     IF /\ e.limit = <<>>
        /\ isTimestampCompatibleSort(e.sort, label)
        /\ e.havingFilter = ExprTRUE
        /\ granularityInflater.found
     THEN [ok |-> TRUE, queryType |-> "timeseries",
           granularity |-> granularityInflater.granularity,
           leftoverHavingFilter |-> e.havingFilter, timestampLabel |-> label,
           postTransform |-> postTransformFactory(<<granularityInflater.inflater>>, <<label>>)]
     ELSE IF ~d.ok THEN d
     ELSE IF /\ d.having = ExprTRUE
             /\ (e.limit # <<>> \/ maxBucketNumber(split) < TopNMaxBuckets)
             /\ ~e.exactResultsOnly
             /\ topNCompatibleSort(e)
             /\ getQuerySelection(e) = "any"
     THEN [ok |-> TRUE, queryType |-> "topN", virtualColumns |-> virtualColumns,
           dimension |-> d.dimension, granularity |-> "all",
           leftoverHavingFilter |-> d.having, timestampLabel |-> <<>>,
           postTransform |-> postTransformFactory(inflaters, <<label>>)]
     ELSE [ok |-> TRUE, queryType |-> "groupBy", virtualColumns |-> virtualColumns,
           dimensions |-> <<d.dimension>>, granularity |-> "all",
           leftoverHavingFilter |-> d.having, timestampLabel |-> <<>>,
           postTransform |-> postTransformFactory(inflaters, <<label>>)]
      single(granularityInflater, d) ==
        shape(granularityInflater, d,
              IF d.inflater = "none" THEN <<>> ELSE <<d.inflater>>,
              IF IsNull(d.virtualColumn) THEN <<>> ELSE <<d.virtualColumn>>)
  IN single(splitExpressionToGranularityInflater(e, splitExpression),
            expressionToDimensionInflaterHaving(e, splitExpression, label, e.havingFilter))

splitToDruid_NoSelectionCheck(e, split) ==
  IF isMultiSplit(split)
  THEN splitToDruidGroupByOnly(e, split)
  ELSE splitToDruidSingle(e, split)

splitToDruid(e, split) ==
  IF getQuerySelection(e) = "group-by-only" \/ isMultiSplit(split)
  THEN splitToDruidGroupByOnly(e, split)
  ELSE splitToDruidSingle(e, split)

(***************************************************************************)
(* DruidFilterBuilder.filterToDruid: the filter is parted into the         *)
(* conjuncts on the time attribute, which become intervals, and the rest,  *)
(* which becomes the dimension filter.                                     *)
(***************************************************************************)
TRUE_INTERVAL == <<"1000/3000">>

isTimeConjunct(e, c) ==
  HasOperand(c) /\ isTimeRef(e, c.operand) /\ c.op \in {"overlap", "is"}

filterToDruid(e, filter) ==
  LET lowered(extract, rest, restFilter) ==
     IF extract = ExprTRUE
     THEN IF e.allowEternity
          THEN [ok |-> TRUE, intervals |-> TRUE_INTERVAL] @@ restFilter
          ELSE [ok |-> FALSE,
                error |-> "must filter on time unless the allowEternity flag is set"]
     ELSE [ok |-> TRUE, intervals |-> extract.expression.value] @@ restFilter
      parted(extract, rest) ==
        lowered(extract, rest,
                IF rest = ExprTRUE THEN Empty
                ELSE [filter |-> [type |-> "expression", of |-> rest]])
      part(cs) == parted(AndOf(SelectSeq(cs, LAMBDA c : isTimeConjunct(e, c))),
                         AndOf(SelectSeq(cs, LAMBDA c : ~isTimeConjunct(e, c))))
  IN part(Conjuncts(filter))

(***************************************************************************)
(* DruidAggregationBuilder.makeAggregationsAndPostAggregations.            *)
(***************************************************************************)
\* the aggregator of one aggregate expression, under the given output name
aggregateToAggregation(e, name, ex) ==
  LET plain == CASE ex.op = "count" -> [type |-> "count", name |-> name]
                 [] ex.op = "sum" -> [type |-> "doubleSum", name |-> name,
                                      fieldName |-> ex.expression.name]
                 [] ex.op = "min" ->
                      [type |-> IF ex.expression.type = "TIME" THEN "longMin" ELSE "doubleMin",
                       name |-> name, fieldName |-> ex.expression.name]
                 [] ex.op = "max" ->
                      [type |-> IF ex.expression.type = "TIME" THEN "longMax" ELSE "doubleMax",
                       name |-> name, fieldName |-> ex.expression.name]
                 [] ex.op = "countDistinct" ->
                      [type |-> "cardinality", name |-> name,
                       fieldName |-> ex.expression.name]
                 [] OTHER -> [type |-> "custom", name |-> name]
  IN IF ex.operand.op = "filter"
     THEN [type |-> "filtered", name |-> name,
           filter |-> [type |-> "expression", of |-> ex.operand.expression],
           aggregator |-> plain]
     ELSE plain

\* the aggregates of a post-aggregate expression, in the order of the walk
RECURSIVE aggregatesOf(_)
aggregatesOf(ex) ==
  IF isAggregate(ex) THEN <<ex>>
  ELSE (IF HasOperand(ex) THEN aggregatesOf(ex.operand) ELSE <<>>) \o
       (IF HasExpression(ex) THEN aggregatesOf(ex.expression) ELSE <<>>)

applyToAggregations(e, apply) ==
  IF isAggregate(apply.expression)
  THEN [aggregations |-> <<aggregateToAggregation(e, apply.name, apply.expression)>>,
        postAggregations |-> <<>>]
  ELSE LET aggs == aggregatesOf(apply.expression)
           tempName(i) == <<"!", "T", "_">> \o apply.name \o <<"_", i>>
       IN [aggregations |->
             [i \in 1..Len(aggs) |-> aggregateToAggregation(e, tempName(i), aggs[i])],
           postAggregations |->
             <<[type |-> "arithmetic", name |-> apply.name, fn |-> apply.expression.op,
                fields |-> [i \in 1..Len(aggs) |-> tempName(i)]]>>]

RECURSIVE makeAggregationsAndPostAggregations(_, _)
makeAggregationsAndPostAggregations(e, applies) ==
  IF applies = <<>> THEN [aggregations |-> <<>>, postAggregations |-> <<>>]
  ELSE LET h == applyToAggregations(e, Head(applies))
           t == makeAggregationsAndPostAggregations(e, Tail(applies))
       IN [aggregations |-> h.aggregations \o t.aggregations,
           postAggregations |-> h.postAggregations \o t.postAggregations]

\* the aggregations and postAggregations fields of the query, when not empty
aggregationFields(e, applies) ==
  LET fields(a) ==
     (IF a.aggregations # <<>> THEN [aggregations |-> a.aggregations] ELSE Empty) @@
     (IF a.postAggregations # <<>> THEN [postAggregations |-> a.postAggregations]
      ELSE Empty)
  IN fields(makeAggregationsAndPostAggregations(e, applies))

(***************************************************************************)
(* Time boundary.                                                          *)
(***************************************************************************)
contextField(e) == IF IsNull(e.context) THEN Empty ELSE [context |-> e.context]

\* timeBoundaryPostTransformFactory(applies?): the optional argument is
\* <<>> when left out and <<applies>> when given
timeBoundaryPostTransformFactory(optionalApplies) ==
  IF optionalApplies = <<>> THEN [kind |-> "timeBoundary"]
  ELSE [kind |-> "timeBoundary", applies |-> optionalApplies[1]]

\* the time boundary query, were the bound taken from the first apply of many
getTimeBoundaryQueryAndPostTransform_FirstApply(e) ==
  LET base == [queryType |-> "timeBoundary", dataSource |-> e.source] @@ contextField(e)
      done(q, applies) ==
        [ok |-> TRUE, query |-> q, context |-> [timestamp |-> <<>>],
         postTransform |-> timeBoundaryPostTransformFactory(applies)]
  IN IF e.mode = "total"
     THEN IF Len(e.applies) >= 1
          THEN done(base @@ [bound |-> <<e.applies[1].expression.op, "Time">>],
                    <<e.applies>>)
          ELSE done(base, <<e.applies>>)
     ELSE IF e.mode = "value"
     THEN done(base @@ [bound |-> <<e.valueExpression.op, "Time">>], <<>>)
     ELSE [ok |-> FALSE, error |-> "invalid mode for timeBoundary"]

getTimeBoundaryQueryAndPostTransform(e) ==
  LET base == [queryType |-> "timeBoundary", dataSource |-> e.source] @@ contextField(e)
      done(q, applies) ==
        [ok |-> TRUE, query |-> q, context |-> [timestamp |-> <<>>],
         postTransform |-> timeBoundaryPostTransformFactory(applies)]
  IN IF e.mode = "total"
     THEN IF Len(e.applies) = 1
          THEN done(base @@ [bound |-> <<e.applies[1].expression.op, "Time">>],
                    <<e.applies>>)
          ELSE done(base, <<e.applies>>)
     ELSE IF e.mode = "value"
     THEN done(base @@ [bound |-> <<e.valueExpression.op, "Time">>], <<>>)
     ELSE [ok |-> FALSE, error |-> "invalid mode for timeBoundary"]

(***************************************************************************)
(* The nested group-by rewrite.                                            *)
(***************************************************************************)
Digits == <<"0", "1", "2", "3", "4", "5", "6", "7", "8", "9">>

\* the decimal digits of a number: what '' + n yields
RECURSIVE NumToChars(_)
NumToChars(n) ==
  IF n < 10 THEN <<Digits[n + 1]>>
  ELSE NumToChars(n \div 10) \o <<Digits[(n % 10) + 1]>>

\* $(name): a reference built without a type
UntypedRef(name) == Ref(name, "undefined")

\* ex.substitute of parseResplitAgg: every dataset reference gets the filter
RECURSIVE filterDatasetRefs(_, _)
filterDatasetRefs(ex, filterExpression) ==
  IF IsRef(ex)
  THEN IF ex.type = "DATASET" THEN Unary("filter", ex, filterExpression, "DATASET") ELSE ex
  ELSE LET a == IF HasOperand(ex)
                THEN [ex EXCEPT !.operand = filterDatasetRefs(ex.operand, filterExpression)]
                ELSE ex
       IN IF HasExpression(ex)
          THEN [a EXCEPT !.expression = filterDatasetRefs(ex.expression, filterExpression)]
          ELSE a

\* ex.substitute of nestedGroupByIfNeeded: the references to oldName are renamed
RECURSIVE renameRefs(_, _, _)
renameRefs(ex, oldName, newName) ==
  IF IsRef(ex)
  THEN IF ex.name = oldName THEN [ex EXCEPT !.name = newName] ELSE ex
  ELSE LET a == IF HasOperand(ex)
                THEN [ex EXCEPT !.operand = renameRefs(ex.operand, oldName, newName)]
                ELSE ex
       IN IF HasExpression(ex)
          THEN [a EXCEPT !.expression = renameRefs(ex.expression, oldName, newName)]
          ELSE a

parseResplitAgg_KeepOperand(applyExpression) ==
  LET resplitAgg == applyExpression
      resplitApply == resplitAgg.operand
      resplitSplit == resplitApply.operand
      resplitRefOrFilter == resplitSplit.operand
      isFilter == resplitRefOrFilter.op = "filter"
      resplitRef == IF isFilter THEN resplitRefOrFilter.operand ELSE resplitRefOrFilter
      bare == [resplitApply EXCEPT !.operand = MainRef]
      effectiveResplitApply ==
        IF isFilter
        THEN [bare EXCEPT !.expression =
                filterDatasetRefs(bare.expression, resplitRefOrFilter.expression)]
        ELSE bare
  IN IF ~(HasOperand(resplitAgg) /\ isAggregate(resplitAgg)) THEN [found |-> FALSE]
     ELSE IF resplitApply.op # "apply" THEN [found |-> FALSE]
     ELSE IF resplitSplit.op # "split" THEN [found |-> FALSE]
     ELSE IF ~IsRef(resplitRef) THEN [found |-> FALSE]
     ELSE [found |-> TRUE,
           resplitAgg |-> [resplitAgg EXCEPT !.operand = MainRef],
           resplitApply |-> effectiveResplitApply,
           resplitSplit |-> resplitSplit]

parseResplitAgg(applyExpression) ==
  LET resplitAgg == applyExpression
      resplitApply == resplitAgg.operand
      resplitSplit == resplitApply.operand
      resplitRefOrFilter == resplitSplit.operand
      isFilter == resplitRefOrFilter.op = "filter"
      resplitRef == IF isFilter THEN resplitRefOrFilter.operand ELSE resplitRefOrFilter
      bare == [resplitApply EXCEPT !.operand = MainRef]
      effectiveResplitApply ==
        IF isFilter
        THEN [bare EXCEPT !.expression =
                filterDatasetRefs(bare.expression, resplitRefOrFilter.expression)]
        ELSE bare
  IN IF ~(HasOperand(resplitAgg) /\ isAggregate(resplitAgg)) THEN [found |-> FALSE]
     ELSE IF resplitApply.op # "apply" THEN [found |-> FALSE]
     ELSE IF resplitSplit.op # "split" THEN [found |-> FALSE]
     ELSE IF ~IsRef(resplitRef) THEN [found |-> FALSE]
     ELSE [found |-> TRUE,
           resplitAgg |-> [resplitAgg EXCEPT !.operand = MainRef],
           resplitApply |-> effectiveResplitApply,
           resplitSplit |-> [resplitSplit EXCEPT !.operand = MainRef]]

\* getFilterSubExpression: the first FilterExpression the walk meets
RECURSIVE getFilterSubExpression(_)
getFilterSubExpression(expression) ==
  IF expression.op = "filter" THEN expression
  ELSE LET a == IF HasOperand(expression) THEN getFilterSubExpression(expression.operand)
                ELSE Null
       IN IF ~IsNull(a) THEN a
          ELSE IF HasExpression(expression)
               THEN getFilterSubExpression(expression.expression)
               ELSE Null

attributeInfo(name, type, nativeType) ==
  [name |-> name, type |-> type, nativeType |-> nativeType, unsplitable |-> FALSE]

setOption(ex, option) == [options |-> option] @@ ex

\* the callback of the substitute over one apply (lines 1416-1479) at an
\* aggregate; st threads globalResplitSplit, innerApplies, outerAttributes, c
resplitAggregate(ex, i, st) ==
  LET rewrite(resplit, newName, innerApply, renamed, filterExpression,
              definedFilterName, tempName) ==
     IF resplit.found
     THEN IF ~IsNull(st.globalResplitSplit) /\ st.globalResplitSplit # resplit.resplitSplit
          THEN [ex |-> ex,
                st |-> [st EXCEPT !.ok = FALSE,
                          !.error = "all resplit aggregators must have the same split"]]
          ELSE IF IsNull(filterExpression)
          THEN [ex |-> renamed,
                st |-> [st EXCEPT
                          !.globalResplitSplit = resplit.resplitSplit,
                          !.innerApplies = Append(@, innerApply),
                          !.outerAttributes =
                             Append(@, attributeInfo(newName, "NUMBER", "null"))]]
          ELSE [ex |-> [renamed EXCEPT !.operand =
                          Unary("filter", MainRef,
                                Unary("greaterThan", UntypedRef(definedFilterName),
                                      Literal(0, "NUMBER"), "BOOLEAN"),
                                "DATASET")],
                st |-> [st EXCEPT
                          !.globalResplitSplit = resplit.resplitSplit,
                          !.innerApplies =
                             @ \o <<innerApply,
                                    ApplyEx(MainRef, definedFilterName,
                                            Chain("count", filterExpression, "NUMBER"))>>,
                          !.outerAttributes =
                             @ \o <<attributeInfo(newName, "NUMBER", "null"),
                                    attributeInfo(definedFilterName, "NUMBER", "null")>>]]
     ELSE LET pulled == [st EXCEPT
                           !.c = @ + 1,
                           !.innerApplies = Append(@, ApplyEx(MainRef, tempName, ex)),
                           !.outerAttributes =
                              Append(@, attributeInfo(tempName, ex.type,
                                        IF ex.op = "countDistinct" THEN "hyperUnique"
                                        ELSE "null"))]
          IN IF ex.op = "count"
             THEN [ex |-> Unary("sum", MainRef, UntypedRef(tempName), "NUMBER"),
                   st |-> pulled]
             ELSE IF HasExpression(ex)
             THEN [ex |-> [ex EXCEPT !.operand = MainRef,
                                     !.expression = UntypedRef(tempName)],
                   st |-> pulled]
             ELSE [ex |-> ex,
                   st |-> [pulled EXCEPT !.ok = FALSE,
                             !.error = "can not currently combine custom aggregation and re-split"]]
      rename(resplit, oldName, newName) ==
        rewrite(resplit, newName,
                [resplit.resplitApply EXCEPT
                   !.name = newName,
                   !.expression = setOption(@, "forceFinalize")],
                renameRefs(resplit.resplitAgg, oldName, newName),
                getFilterSubExpression(resplit.resplitApply.expression),
                newName \o <<"_", "d", "e", "f">>,
                <<"a">> \o NumToChars(i) \o <<"_">> \o NumToChars(st.c))
      parsed(resplit, oldName) ==
        rename(resplit, oldName, oldName \o <<"_">> \o NumToChars(i))
      callback(resplit) == parsed(resplit, resplit.resplitApply.name)
  IN callback(parseResplitAgg(ex))

\* apply.expression.substitute(...) of apply i, operand before expression
RECURSIVE substituteResplit(_, _, _)
substituteResplit(ex, i, st) ==
  IF ~st.ok THEN [ex |-> ex, st |-> st]
  ELSE IF isAggregate(ex) THEN resplitAggregate(ex, i, st)
  ELSE LET rebuilt(b, withOperand) ==
          [ex |-> IF HasExpression(ex) THEN [withOperand EXCEPT !.expression = b.ex]
                  ELSE withOperand,
           st |-> b.st]
           walked(a) ==
             rebuilt(IF HasExpression(ex) THEN substituteResplit(ex.expression, i, a.st)
                     ELSE [ex |-> Null, st |-> a.st],
                     IF HasOperand(ex) THEN [ex EXCEPT !.operand = a.ex] ELSE ex)
       IN walked(IF HasOperand(ex) THEN substituteResplit(ex.operand, i, st)
                 ELSE [ex |-> Null, st |-> st])

\* the map over the applies, were c counted across the applies
RECURSIVE mapResplitApplies_OneCounter(_, _, _)
mapResplitApplies_OneCounter(applies, i, st) ==
  IF i > Len(applies) \/ ~st.ok THEN st
  ELSE LET next(r) ==
          mapResplitApplies_OneCounter(applies, i + 1,
            [r.st EXCEPT !.outerApplies =
                           Append(@, [applies[i] EXCEPT !.expression = r.ex])])
       IN next(substituteResplit(applies[i].expression, i - 1, st))

\* effectiveApplies.map(...) (lines 1412-1483) from apply i (1-based) on
RECURSIVE mapResplitApplies(_, _, _)
mapResplitApplies(applies, i, st) ==
  IF i > Len(applies) \/ ~st.ok THEN st
  ELSE LET next(r) ==
          mapResplitApplies(applies, i + 1,
            [r.st EXCEPT !.outerApplies =
                           Append(@, [applies[i] EXCEPT !.expression = r.ex])])
       IN next(substituteResplit(applies[i].expression, i - 1, [st EXCEPT !.c = 0]))

\* divvyUpNestedSplitExpression, were every outer key a bare reference
divvyUpNestedSplitExpression_BareRef(splitExpression, intermediateName) ==
  [inner |-> splitExpression, outer |-> UntypedRef(intermediateName)]

\* divvyUpNestedSplitExpression (lines 1375-1393)
divvyUpNestedSplitExpression(splitExpression, intermediateName) ==
  IF splitExpression.op \in {"timeBucket", "numberBucket"}
  THEN [inner |-> splitExpression,
        outer |-> [splitExpression EXCEPT !.operand = UntypedRef(intermediateName)]]
  ELSE [inner |-> splitExpression, outer |-> UntypedRef(intermediateName)]

\* obj[name] = expression on a JS object kept as a sequence of its entries
setKey(entries, name, expression) ==
  IF \E k \in 1..Len(entries) : entries[k].name = name
  THEN [k \in 1..Len(entries) |->
          IF entries[k].name = name THEN [name |-> name, expression |-> expression]
          ELSE entries[k]]
  ELSE Append(entries, [name |-> name, expression |-> expression])

hasEntry(entries, name) == \E k \in 1..Len(entries) : entries[k].name = name

\* the last key of the outer split whose expression equals ex, or <<>>
outerSplitNameOf(split, ex) ==
  IF IsNull(split) THEN <<>>
  ELSE LET hits == {k \in 1..Len(split.splits) : split.splits[k].expression = ex}
       IN IF hits = {} THEN <<>>
          ELSE split.splits[CHOOSE k \in hits : \A j \in hits : j <= k].name

\* the loop over the re-split split's keys (lines 1491-1510) from key i on;
\* m threads splitCount, innerSplits, outerSplits and outerAttributes
RECURSIVE mergeResplitKeys(_, _, _, _)
mergeResplitKeys(split, keys, i, m) ==
  IF i > Len(keys) THEN m
  ELSE LET merged(outerSplitName, intermediateName, divvy) ==
          mergeResplitKeys(split, keys, i + 1,
            [splitCount |-> m.splitCount + 1,
             outerAttributes |->
               Append(m.outerAttributes,
                      attributeInfo(intermediateName, divvy.inner.type, "null")),
             innerSplits |-> setKey(m.innerSplits, intermediateName, divvy.inner),
             outerSplits |-> IF outerSplitName # <<>>
                             THEN setKey(m.outerSplits, outerSplitName, divvy.outer)
                             ELSE m.outerSplits])
           named(intermediateName) ==
             merged(outerSplitNameOf(split, keys[i].expression), intermediateName,
                    divvyUpNestedSplitExpression(keys[i].expression, intermediateName))
       IN named(<<"s">> \o NumToChars(m.splitCount))

\* the loop over the External's own split keys (lines 1512-1523)
RECURSIVE mergeOwnKeys(_, _, _)
mergeOwnKeys(keys, i, m) ==
  IF i > Len(keys) THEN m
  ELSE IF hasEntry(m.outerSplits, keys[i].name) THEN mergeOwnKeys(keys, i + 1, m)
  ELSE LET merged(intermediateName, divvy) ==
          mergeOwnKeys(keys, i + 1,
            [splitCount |-> m.splitCount + 1,
             outerAttributes |->
               Append(m.outerAttributes,
                      attributeInfo(intermediateName, divvy.inner.type, "null")),
             innerSplits |-> setKey(m.innerSplits, intermediateName, divvy.inner),
             outerSplits |-> setKey(m.outerSplits, keys[i].name, divvy.outer)])
           named(intermediateName) ==
             merged(intermediateName,
                    divvyUpNestedSplitExpression(keys[i].expression, intermediateName))
       IN named(<<"s">> \o NumToChars(m.splitCount))

\* SplitExpression.changeSplits keeps the keys in the split's own (sorted)
\* order: the outer split has the key names of the original one
outerSplitsInKeyOrder(split, outerSplits) ==
  [k \in 1..Len(split.splits) |->
     LET j == CHOOSE j \in 1..Len(outerSplits) :
                outerSplits[j].name = split.splits[k].name
     IN outerSplits[j]]

appliesDefined(e) == e.mode \in {"total", "split"}

VALUE_NAME == <<"_", "_", "V", "A", "L", "U", "E", "_", "_">>

effectiveApplies(e) ==
  IF appliesDefined(e) THEN e.applies
  ELSE <<ApplyEx(MainRef, VALUE_NAME, e.valueExpression)>>

\* the inner External, were the sort and the limit left as they are
innerExternal_KeepSortAndLimit(e, innerApplies, innerSplits) ==
  [e EXCEPT !.mode = "split",
            !.applies = innerApplies,
            !.querySelection = "group-by-only",
            !.split = SplitEx(MainRef, innerSplits)]

\* the External of the inner query (lines 1526-1533)
innerExternal(e, innerApplies, innerSplits) ==
  [e EXCEPT !.mode = "split",
            !.applies = innerApplies,
            !.querySelection = "group-by-only",
            !.split = SplitEx(MainRef, innerSplits),
            !.limit = <<>>,
            !.sort = Null]

\* the External of the outer query (lines 1538-1549)
outerExternal(e, outerAttributes, outerApplies, outerSplits) ==
  LET a == [e EXCEPT !.rawAttributes = outerAttributes,
                     !.filter = ExprTRUE,
                     !.allowEternity = TRUE,
                     !.querySelection = "group-by-only"]
      b == IF appliesDefined(e) THEN [a EXCEPT !.applies = outerApplies]
           ELSE [a EXCEPT !.valueExpression = outerApplies[1].expression]
  IN IF IsNull(e.split) THEN b
     ELSE [b EXCEPT !.split = SplitEx(MainRef, outerSplitsInKeyOrder(e.split, outerSplits))]

(***************************************************************************)
(* getQueryAndPostTransform.                                               *)
(***************************************************************************)
\* External.getSelectedAttributes
findByName(attributes, name) ==
  attributes[CHOOSE i \in 1..Len(attributes) : attributes[i].name = name]

derivedAttributeInfos(e) ==
  [i \in 1..Len(e.derivedAttributes) |->
     attributeInfo(e.derivedAttributes[i].name, e.derivedAttributes[i].expression.type,
                   "null")]

getSelectedAttributes(e) ==
  LET attributes == IF e.mode = "raw" THEN e.rawAttributes \o derivedAttributeInfos(e)
                    ELSE e.rawAttributes
  IN IF IsNull(e.select) THEN attributes
     ELSE [i \in 1..Len(e.select.attributes) |->
             findByName(attributes, e.select.attributes[i])]

\* External.sortOnLabel
sortOnLabel(e) ==
  IF IsNull(e.sort) THEN FALSE
  ELSE IF IsNull(e.split) THEN FALSE
  ELSE IF ~hasKey(e.split, e.sort.expression.name) THEN FALSE
  ELSE AppliesNamed(e, e.sort.expression.name) = <<>>

expressionNeedsNumericSort(ex) == ex.type \in {"NUMBER", "NUMBER_RANGE"}

SeqContains(seq, x) == \E i \in 1..Len(seq) : seq[i] = x

requesterContext(timestamp) ==
  [timestamp |-> timestamp, ignorePrefix |-> <<"!">>, dummyPrefix |-> <<"*", "*", "*">>]

\* the first lines of every query but a timeBoundary one (lines 1576-1598)
baseQuery(e, filterAndIntervals) ==
  [queryType |-> "timeseries", dataSource |-> e.source,
   intervals |-> filterAndIntervals.intervals, granularity |-> "all"]
  @@ contextField(e)
  @@ (IF "filter" \in DOMAIN filterAndIntervals
      THEN [filter |-> filterAndIntervals.filter] ELSE Empty)

\* the virtual column of a selected attribute (lines 1619-1643)
rawVirtualColumn(e, attribute) ==
  IF attribute.nativeType = "__time" /\ attribute.name # TIME_ATTRIBUTE
  THEN <<[type |-> "expression", name |-> attribute.name,
          expression |-> <<"ref">> \o TIME_ATTRIBUTE, outputType |-> "STRING"]>>
  ELSE IF hasEntry(e.derivedAttributes, attribute.name)
  THEN <<[type |-> "expression", name |-> attribute.name,
          expression |-> expressionToDruidExpression(
                           findByName(e.derivedAttributes, attribute.name).expression),
          outputType |-> "STRING"]>>
  ELSE <<>>

rawInflater(attribute) ==
  CASE attribute.type = "BOOLEAN" -> <<"boolean">>
    [] attribute.type = "NUMBER" -> <<"number">>
    [] attribute.type = "TIME" -> <<"time">>
    [] attribute.type = "SET/STRING" -> <<"setString">>
    [] OTHER -> <<>>

\* the virtual columns the forEach over the selected attributes pushes
RECURSIVE rawVirtualColumns(_, _)
rawVirtualColumns(e, attributes) ==
  IF attributes = <<>> THEN <<>>
  ELSE rawVirtualColumn(e, Head(attributes)) \o rawVirtualColumns(e, Tail(attributes))

\* the inflaters it pushes
RECURSIVE rawInflaters(_)
rawInflaters(attributes) ==
  IF attributes = <<>> THEN <<>>
  ELSE rawInflater(Head(attributes)) \o rawInflaters(Tail(attributes))

\* the scan query of case 'raw' (lines 1609-1693)
scanQueryAndPostTransform(e, druidQuery) ==
  LET sortOnTime == ~IsNull(e.sort) /\ e.sort.expression.name = e.timeAttribute
      limited(ordered) == IF e.limit # <<>> THEN [limit |-> e.limit[1]] @@ ordered ELSE ordered
      ordered(columns, scan) ==
        limited(IF sortOnTime /\ SeqContains(e.select.attributes, e.timeAttribute)
                THEN [order |-> e.sort.direction,
                      columns |-> IF SeqContains(columns, TIME_ATTRIBUTE) THEN columns
                                  ELSE Append(columns, TIME_ATTRIBUTE)] @@ scan
                ELSE scan)
      scan(virtualColumns, columns) ==
        ordered(columns,
                [queryType |-> "scan", resultFormat |-> "compactedList", columns |-> columns]
                @@ (IF virtualColumns # <<>> THEN [virtualColumns |-> virtualColumns]
                    ELSE Empty)
                @@ druidQuery)
      query(selectedAttributes) ==
        scan(rawVirtualColumns(e, selectedAttributes),
             [i \in 1..Len(selectedAttributes) |-> selectedAttributes[i].name])
  IN IF sortOnTime /\ IsNull(e.select)
     THEN [ok |-> FALSE, error |-> "TypeError: this.select is undefined"]
     ELSE [ok |-> TRUE, query |-> query(getSelectedAttributes(e)),
           context |-> requesterContext(<<>>),
           postTransform |-> postTransformFactory(rawInflaters(getSelectedAttributes(e)),
                                                  <<>>)]

rawQueryAndPostTransform_NoFlagCheck(e, druidQuery) ==
  scanQueryAndPostTransform(e, druidQuery)

\* case 'raw' (lines 1602-1694)
rawQueryAndPostTransform(e, druidQuery) ==
  IF ~e.allowSelectQueries
  THEN [ok |-> FALSE,
        error |-> "to issue 'scan' or 'select' queries allowSelectQueries flag must be set"]
  ELSE scanQueryAndPostTransform(e, druidQuery)

\* the 'timeseries' case, were the key written over the user's value
combineTimeseries_AlwaysInject(e, split, druidQuery) ==
  LET described == IF ~IsNull(e.sort) /\ e.sort.direction = "descending"
                   THEN [descending |-> TRUE] @@ druidQuery ELSE druidQuery
      userContext == IF "context" \in DOMAIN druidQuery THEN druidQuery.context ELSE Empty
  IN IF ~IsNull(e.sort) /\ ~hasKey(split, e.sort.expression.name)
     THEN [ok |-> FALSE, error |-> "can not sort within timeseries query"]
     ELSE IF e.limit # <<>>
     THEN [ok |-> FALSE, error |-> "can not limit within timeseries query"]
     ELSE [ok |-> TRUE,
           query |-> [context |-> [skipEmptyBuckets |-> "true"] @@ userContext]
                     @@ described]

\* the 'timeseries' case of the Combine switch (lines 1786-1802)
combineTimeseries(e, split, druidQuery) ==
  LET described == IF ~IsNull(e.sort) /\ e.sort.direction = "descending"
                   THEN [descending |-> TRUE] @@ druidQuery ELSE druidQuery
      userContext == IF "context" \in DOMAIN druidQuery THEN druidQuery.context ELSE Empty
  IN IF ~IsNull(e.sort) /\ ~hasKey(split, e.sort.expression.name)
     THEN [ok |-> FALSE, error |-> "can not sort within timeseries query"]
     ELSE IF e.limit # <<>>
     THEN [ok |-> FALSE, error |-> "can not limit within timeseries query"]
     ELSE IF "skipEmptyBuckets" \in DOMAIN userContext
     THEN [ok |-> TRUE, query |-> described]
     ELSE [ok |-> TRUE,
           query |-> [context |-> [skipEmptyBuckets |-> "true"] @@ userContext]
                     @@ described]

TopNDefaultThreshold == 1000

\* the 'topN' case, were a metric inverted for a descending sort whatever
\* the sort is on
combineTopN_InvertDescending(e, split, druidQuery) ==
  LET dimensionMetric ==
        [type |-> "dimension",
         ordering |-> IF expressionNeedsNumericSort(firstSplitExpression(split))
                      THEN "numeric" ELSE "lexicographic"]
      plain == IF sortOnLabel(e) THEN dimensionMetric
               ELSE [type |-> "metric", metric |-> e.sort.expression.name]
      metric == IF IsNull(e.sort) THEN [type |-> "dimension", ordering |-> "lexicographic"]
                ELSE IF e.sort.direction = "descending"
                THEN [type |-> "inverted", metric |-> plain]
                ELSE plain
  IN [ok |-> TRUE,
      query |-> [metric |-> metric,
                 threshold |-> IF e.limit # <<>> THEN e.limit[1] ELSE TopNDefaultThreshold]
                @@ druidQuery]

\* the 'topN' case (lines 1804-1829)
combineTopN(e, split, druidQuery) ==
  LET dimensionMetric ==
        [type |-> "dimension",
         ordering |-> IF expressionNeedsNumericSort(firstSplitExpression(split))
                      THEN "numeric" ELSE "lexicographic"]
      plain == IF sortOnLabel(e) THEN dimensionMetric
               ELSE [type |-> "metric", metric |-> e.sort.expression.name]
      inverted == IF sortOnLabel(e) THEN e.sort.direction = "descending"
                  ELSE e.sort.direction = "ascending"
      metric == IF IsNull(e.sort) THEN [type |-> "dimension", ordering |-> "lexicographic"]
                ELSE IF inverted THEN [type |-> "inverted", metric |-> plain]
                ELSE plain
  IN [ok |-> TRUE,
      query |-> [metric |-> metric,
                 threshold |-> IF e.limit # <<>> THEN e.limit[1] ELSE TopNDefaultThreshold]
                @@ druidQuery]

splitExpressionOf(split, name) ==
  split.splits[CHOOSE i \in 1..Len(split.splits) : split.splits[i].name = name].expression

\* the 'groupBy' case (lines 1831-1865)
combineGroupBy(e, split, druidQuery, leftoverHavingFilter) ==
  LET col == e.sort.expression.name
      orderByColumn(orderByBase) ==
        IF sortOnLabel(e) /\ expressionNeedsNumericSort(splitExpressionOf(split, col))
        THEN orderByBase @@ [dimensionOrder |-> "numeric"]
        ELSE orderByBase
      sortSpec == IF ~IsNull(e.sort)
                  THEN [limitSpec |->
                          [type |-> "default",
                           columns |-> <<orderByColumn([dimension |-> makeOutputName(col),
                                                        direction |-> e.sort.direction])>>]]
                  ELSE Empty
      limitSpec == IF e.limit # <<>>
                   THEN [limitSpec |->
                           [limit |-> e.limit[1]] @@
                           (IF ~IsNull(e.sort) THEN sortSpec.limitSpec
                            ELSE [type |-> "default",
                                  columns |->
                                    <<[column |-> makeOutputName(firstSplitName(split))]>>])]
                   ELSE sortSpec
      having == IF leftoverHavingFilter # ExprTRUE
                THEN [having |-> [type |-> "having", of |-> leftoverHavingFilter]]
                ELSE Empty
  IN [ok |-> TRUE, query |-> limitSpec @@ having @@ druidQuery]

RECURSIVE getQueryAndPostTransform(_)
RECURSIVE nestedGroupByIfNeeded(_)

\* case 'split' (lines 1757-1873), once no nested group-by is needed
splitQueryAndPostTransform(e, druidQuery) ==
  LET split == e.split
      planned(splitSpec, combined) ==
        IF ~combined.ok THEN combined
        ELSE [ok |-> TRUE, query |-> combined.query,
              context |-> requesterContext(splitSpec.timestampLabel),
              postTransform |-> splitSpec.postTransform]
      combine(splitSpec, shaped) ==
        planned(splitSpec,
                CASE splitSpec.queryType = "timeseries" -> combineTimeseries(e, split, shaped)
                  [] splitSpec.queryType = "topN" -> combineTopN(e, split, shaped)
                  [] OTHER -> combineGroupBy(e, split, shaped,
                                             splitSpec.leftoverHavingFilter))
      shape(splitSpec) ==
        IF ~splitSpec.ok THEN splitSpec
        ELSE combine(splitSpec,
               [queryType |-> splitSpec.queryType, granularity |-> splitSpec.granularity]
               @@ (IF "virtualColumns" \in DOMAIN splitSpec /\ splitSpec.virtualColumns # <<>>
                   THEN [virtualColumns |-> splitSpec.virtualColumns] ELSE Empty)
               @@ (IF "dimension" \in DOMAIN splitSpec
                   THEN [dimension |-> splitSpec.dimension] ELSE Empty)
               @@ (IF "dimensions" \in DOMAIN splitSpec
                   THEN [dimensions |-> splitSpec.dimensions] ELSE Empty)
               @@ aggregationFields(e, e.applies)
               @@ druidQuery)
  IN shape(splitToDruid(e, split))

\* cases 'value' and 'total' (lines 1696-1751), once no nested group-by is needed
aggregateQueryAndPostTransform(e, druidQuery) ==
  LET applies == IF e.mode = "value" THEN <<ApplyEx(MainRef, VALUE_NAME, e.valueExpression)>>
                 ELSE e.applies
      q == (IF e.querySelection = "group-by-only"
            THEN [queryType |-> "groupBy", dimensions |-> <<>>] ELSE Empty)
           @@ aggregationFields(e, applies) @@ druidQuery
  IN [ok |-> TRUE, query |-> q, context |-> requesterContext(<<>>),
      postTransform |-> IF e.mode = "value" THEN [kind |-> "value"]
                        ELSE [kind |-> "datum", inflaters |-> <<>>, keys |-> <<>>,
                              applies |-> e.applies]]

nestedGroupByIfNeeded(e) ==
  LET applies == effectiveApplies(e)
      combine(ie, oe, inner, outer) ==
        IF ~inner.ok
        THEN [nested |-> TRUE, result |-> inner, built |-> <<ie>>, answers |-> <<inner>>]
        ELSE IF ~outer.ok
        THEN [nested |-> TRUE, result |-> outer, built |-> <<ie, oe>>,
              answers |-> <<inner, outer>>]
        ELSE [nested |-> TRUE, built |-> <<ie, oe>>, answers |-> <<inner, outer>>,
              result |-> [outer EXCEPT !.query =
                            [dataSource |->
                               [type |-> "query",
                                query |-> [k \in DOMAIN inner.query \ {"context"} |->
                                             inner.query[k]]]] @@ @]]
      construct(ie, oe) ==
        combine(ie, oe, getQueryAndPostTransform(ie), getQueryAndPostTransform(oe))
      plan(st, m) ==
        construct(innerExternal(e, st.innerApplies, m.innerSplits),
                  outerExternal(e, m.outerAttributes, st.outerApplies, m.outerSplits))
      ownKeys(st, m1) ==
        plan(st, IF IsNull(e.split) THEN m1 ELSE mergeOwnKeys(e.split.splits, 1, m1))
      resplitKeys(st) ==
        IF ~st.ok
        THEN [nested |-> TRUE, built |-> <<>>, answers |-> <<>>,
              result |-> [ok |-> FALSE, error |-> st.error]]
        ELSE IF IsNull(st.globalResplitSplit) THEN [nested |-> FALSE]
        ELSE ownKeys(st,
               mergeResplitKeys(e.split, st.globalResplitSplit.splits, 1,
                 [splitCount |-> 0, outerAttributes |-> st.outerAttributes,
                  innerSplits |-> <<>>, outerSplits |-> <<>>]))
  IN IF ~\E i \in 1..Len(applies) :
           \E n \in AllNodes(applies[i].expression) : n.op = "split"
     THEN [nested |-> FALSE]
     ELSE resplitKeys(mapResplitApplies(applies, 1,
            [ok |-> TRUE, error |-> "", globalResplitSplit |-> Null, c |-> 0,
             innerApplies |-> <<>>, outerAttributes |-> <<>>, outerApplies |-> <<>>]))

\* the test of lines 1563-1574
usesTimeBoundary(e) ==
  /\ e.querySelection # "group-by-only"
  /\ \/ /\ e.mode = "total"
        /\ Len(e.applies) > 0
        /\ \A i \in 1..Len(e.applies) : isMinMaxTimeExpression(e, e.applies[i].expression)
     \/ /\ e.mode = "value"
        /\ isMinMaxTimeExpression(e, e.valueExpression)

getQueryAndPostTransform(e) ==
  LET byMode(druidQuery, nested) ==
        IF e.mode = "raw" THEN rawQueryAndPostTransform(e, druidQuery)
        ELSE IF nested.nested THEN nested.result
        ELSE IF e.mode = "split" THEN splitQueryAndPostTransform(e, druidQuery)
        ELSE aggregateQueryAndPostTransform(e, druidQuery)
      withFilter(filterAndIntervals) ==
        IF ~filterAndIntervals.ok THEN filterAndIntervals
        ELSE byMode(baseQuery(e, filterAndIntervals), nestedGroupByIfNeeded(e))
  IN IF usesTimeBoundary(e)
     THEN getTimeBoundaryQueryAndPostTransform(e)
     ELSE withFilter(filterToDruid(e, e.filter))

(***************************************************************************)
(* The Externals the planner is run on.                                    *)
(***************************************************************************)
NameC == <<"c">>
NameG == <<"g">>
NameN == <<"n">>
NameB == <<"b">>
NameU == <<"u">>
NameD == <<"d">>
NameK == <<"k">>
NameF == <<"f">>
NameX == <<"x">>

\* the labels of split keys: a plain one, one with the reserved prefix, and
\* one that already starts with the dummy prefix
LabelA == <<"a">>
LabelUU == <<"_", "_", "a">>
LabelDummy == <<"*", "*", "*", "_", "_", "a">>

attribute(name, type, nativeType, unsplitable) ==
  [name |-> name, type |-> type, nativeType |-> nativeType, unsplitable |-> unsplitable]

\* the attributes of the data source; ta is the name of the time attribute
Attributes(ta) ==
  <<attribute(ta, "TIME", "__time", FALSE),
    attribute(NameC, "STRING", "STRING", FALSE),
    attribute(NameG, "SET/STRING", "STRING", FALSE),
    attribute(NameN, "NUMBER", "DOUBLE", FALSE),
    attribute(NameB, "BOOLEAN", "STRING", FALSE),
    attribute(NameD, "TIME", "LONG", FALSE),
    attribute(NameU, "NULL", "hyperUnique", TRUE)>>

TimeNames == {TIME_ATTRIBUTE, <<"t", "s">>}

timeBucket(operand) ==
  [op |-> "timeBucket", operand |-> operand, duration |-> "P1D", timezone |-> "Etc/UTC",
   type |-> "TIME_RANGE"]

timeFloor(operand) ==
  [op |-> "timeFloor", operand |-> operand, duration |-> "PT1H", timezone |-> "Etc/UTC",
   type |-> "TIME"]

timePart(operand) ==
  [op |-> "timePart", operand |-> operand, part |-> "HOUR_OF_DAY", maxValues |-> 24,
   type |-> "NUMBER"]

isLiteral(ref, value) == Unary("is", ref, Literal(value, "STRING"), "BOOLEAN")

\* split-key expressions that can become the granularity of a timeseries
TimeSplitExpressions(ta) ==
  {Ref(ta, "TIME"), timeBucket(Ref(ta, "TIME")), timeFloor(Ref(ta, "TIME"))}

\* split-key expressions with one free reference
SimpleSplitExpressions(ta) ==
  {timeFloor(Ref(NameD, "TIME")),
   timePart(Ref(ta, "TIME")),
   Ref(NameC, "STRING"),
   Ref(NameG, "SET/STRING"),
   Ref(NameB, "BOOLEAN"),
   Ref(NameU, "NULL"),
   Chain("numberBucket", Ref(NameN, "NUMBER"), "NUMBER_RANGE"),
   Chain("cardinality", Ref(NameG, "SET/STRING"), "NUMBER"),
   Chain("length", Ref(NameC, "STRING"), "NUMBER"),
   Unary("indexOf", Ref(NameC, "STRING"), Literal("x", "STRING"), "NUMBER")}

\* split-key expressions that are lowered to a virtual column, or have no
\* free reference
ComplexSplitExpressions ==
  {Literal("x", "STRING"),
   Unary("concat", Ref(NameC, "STRING"), Ref(NameU, "NULL"), "STRING"),
   Unary("concat", Ref(NameG, "SET/STRING"), Ref(NameC, "STRING"), "SET/STRING"),
   Unary("then", isLiteral(Ref(NameC, "STRING"), "x"), Literal("y", "STRING"), "STRING"),
   Unary("then", isLiteral(Ref(NameU, "NULL"), "x"), Literal("y", "STRING"), "STRING"),
   Unary("fallback",
         Chain("transformCase", Chain("substr", Ref(NameU, "NULL"), "STRING"), "STRING"),
         Ref(NameU, "NULL"), "STRING")}

SplitExpressions(ta) ==
  TimeSplitExpressions(ta) \cup SimpleSplitExpressions(ta) \cup ComplexSplitExpressions

key(name, expression) == [name |-> name, expression |-> expression]

\* split-key expressions that are also split under a label beginning with '__'
ReservedLabelExpressions(ta) ==
  {Ref(ta, "TIME"),
   Ref(NameC, "STRING"),
   Unary("concat", Ref(NameG, "SET/STRING"), Ref(NameC, "STRING"), "SET/STRING")}

SingleSplits(ta) ==
  {SplitEx(MainRef, <<key(LabelA, x)>>) : x \in SplitExpressions(ta)} \cup
  {SplitEx(MainRef, <<key(LabelUU, x)>>) : x \in ReservedLabelExpressions(ta)}

\* two-key splits, the keys in sorted order
MultiSplitExpressions(ta) ==
  {Ref(NameC, "STRING"),
   Unary("concat", Ref(NameG, "SET/STRING"), Ref(NameC, "STRING"), "SET/STRING"),
   Unary("then", isLiteral(Ref(NameC, "STRING"), "x"), Literal("y", "STRING"), "STRING")}

MultiSplits(ta) ==
  {SplitEx(MainRef, <<key(LabelA, x), key(LabelUU, y)>>) :
     x \in MultiSplitExpressions(ta), y \in MultiSplitExpressions(ta)} \cup
  {SplitEx(MainRef, <<key(LabelDummy, x), key(LabelUU, x)>>) :
     x \in MultiSplitExpressions(ta)}

\* filters: none, on the time attribute only, on time and something else
timeFilter(ta) ==
  Unary("overlap", Ref(ta, "TIME"), Literal(<<"2020-01-01/2020-01-02">>, "TIME_RANGE"),
        "BOOLEAN")

Filters(ta) ==
  {ExprTRUE, timeFilter(ta),
   Unary("and", timeFilter(ta), isLiteral(Ref(NameC, "STRING"), "x"), "BOOLEAN")}

\* aggregates
count(operand) == Chain("count", operand, "NUMBER")

filtered(operand, condition) == Unary("filter", operand, condition, "DATASET")

\* max over the counts of a split by day: a re-split aggregate
resplitMax(ta, operand) ==
  Unary("max",
        ApplyEx(SplitEx(operand, <<key(<<"s">>, timeBucket(Ref(ta, "TIME")))>>),
                NameX, count(MainRef)),
        Ref(NameX, "NUMBER"), "NUMBER")

\* a custom aggregate: a chainable expression without an expression
customAggregate(operand) ==
  [op |-> "customAggregate", operand |-> operand, custom |-> "x", type |-> "NUMBER"]

\* max over the counts of a split by hour
resplitMaxHourly(ta, operand) ==
  Unary("max",
        ApplyEx(SplitEx(operand, <<key(<<"s">>, timeFloor(Ref(ta, "TIME")))>>),
                NameX, count(MainRef)),
        Ref(NameX, "NUMBER"), "NUMBER")

\* the number of days: an aggregate over a split with no apply between them
bucketCount(ta) ==
  count(SplitEx(MainRef, <<key(<<"s">>, timeBucket(Ref(ta, "TIME")))>>))

\* max over the days of the max over the hours of the counts: a re-split
\* aggregate inside the apply of a re-split aggregate
resplitMaxOfMax(ta) ==
  Unary("max",
        ApplyEx(SplitEx(MainRef, <<key(<<"s">>, timeBucket(Ref(ta, "TIME")))>>),
                NameX,
                Unary("max",
                      ApplyEx(SplitEx(MainRef, <<key(<<"s">>, timeFloor(Ref(ta, "TIME")))>>),
                              NameK, count(MainRef)),
                      Ref(NameK, "NUMBER"), "NUMBER")),
        Ref(NameX, "NUMBER"), "NUMBER")

ApplyLists(ta) ==
  {<<>>,
   <<ApplyEx(MainRef, NameK, count(MainRef))>>,
   <<ApplyEx(MainRef, NameK, Unary("max", MainRef, Ref(ta, "TIME"), "TIME"))>>,
   <<ApplyEx(MainRef, NameK, Unary("max", MainRef, Ref(ta, "TIME"), "TIME")),
     ApplyEx(MainRef, NameF, Unary("min", MainRef, Ref(ta, "TIME"), "TIME"))>>,
   <<ApplyEx(MainRef, NameK, count(MainRef)),
     ApplyEx(MainRef, NameF,
             Unary("sum", filtered(MainRef, timeFilter(ta)), Ref(NameN, "NUMBER"), "NUMBER"))>>,
   <<ApplyEx(MainRef, NameK,
             Unary("sum", filtered(MainRef, isLiteral(Ref(NameC, "STRING"), "x")),
                   Ref(NameN, "NUMBER"), "NUMBER")),
     ApplyEx(MainRef, NameF,
             Unary("sum",
                   filtered(MainRef,
                            Unary("and", timeFilter(ta),
                                  isLiteral(Ref(NameC, "STRING"), "x"), "BOOLEAN")),
                   Ref(NameN, "NUMBER"), "NUMBER"))>>,
   <<ApplyEx(MainRef, NameK, count(MainRef)),
     ApplyEx(MainRef, NameF, resplitMax(ta, MainRef))>>,
   <<ApplyEx(MainRef, NameF,
             resplitMax(ta, filtered(MainRef, isLiteral(Ref(NameC, "STRING"), "x"))))>>}

ValueExpressions(ta) ==
  {count(MainRef),
   Unary("max", MainRef, Ref(ta, "TIME"), "TIME"),
   Unary("min", filtered(MainRef, isLiteral(Ref(NameC, "STRING"), "x")),
         Ref(ta, "TIME"), "TIME"),
   Unary("sum", filtered(MainRef, timeFilter(ta)), Ref(NameN, "NUMBER"), "NUMBER"),
   Unary("max", MainRef, Ref(NameD, "TIME"), "TIME"),
   resplitMax(ta, MainRef),
   Unary("add", resplitMax(ta, MainRef),
         resplitMax(ta, filtered(MainRef, isLiteral(Ref(NameC, "STRING"), "x"))),
         "NUMBER"),
   Unary("add", resplitMax(ta, MainRef), resplitMaxHourly(ta, MainRef), "NUMBER"),
   Unary("add", resplitMax(ta, MainRef),
         Unary("sum", MainRef, Ref(NameN, "NUMBER"), "NUMBER"), "NUMBER"),
   Unary("add", count(MainRef), resplitMax(ta, MainRef), "NUMBER"),
   Unary("add", resplitMax(ta, MainRef), customAggregate(MainRef), "NUMBER"),
   Unary("add",
         Unary("max",
               ApplyEx(SplitEx(MainRef, <<key(<<"s">>, timeBucket(Ref(ta, "TIME")))>>),
                       <<"a", "0">>, count(MainRef)),
               Ref(<<"a", "0">>, "NUMBER"), "NUMBER"),
         count(MainRef), "NUMBER"),
   bucketCount(ta),
   Unary("add", bucketCount(ta), customAggregate(MainRef), "NUMBER"),
   Unary("add", resplitMax(ta, MainRef), bucketCount(ta), "NUMBER"),
   resplitMaxOfMax(ta)}

\* the applies of a total External: two re-split aggregates in two applies
\* as well
TotalApplyLists(ta) ==
  ApplyLists(ta) \cup
  {<<ApplyEx(MainRef, NameK, resplitMax(ta, MainRef)),
     ApplyEx(MainRef, NameF,
             resplitMax(ta, filtered(MainRef, isLiteral(Ref(NameC, "STRING"), "x"))))>>,
   <<ApplyEx(MainRef, NameK, resplitMax(ta, MainRef)),
     ApplyEx(MainRef, NameF, resplitMaxHourly(ta, MainRef))>>,
   <<ApplyEx(MainRef, NameK, Unary("max", MainRef, Ref(ta, "TIME"), "TIME")),
     ApplyEx(MainRef, NameF, Unary("max", MainRef, Ref(ta, "TIME"), "TIME"))>>,
   <<ApplyEx(MainRef, NameK, count(MainRef)),
     ApplyEx(MainRef, NameF,
             Unary("add", resplitMax(ta, MainRef),
                   Unary("sum", MainRef, Ref(NameN, "NUMBER"), "NUMBER"), "NUMBER"))>>}

Directions == {"ascending", "descending"}

\* sorts of a split: none, on the first label, on an apply
Sorts(split) ==
  {Null, SortEx(Ref(NameF, "undefined"), "descending"),
   SortEx(Ref(NameK, "undefined"), "descending")} \cup
  {SortEx(Ref(firstSplitName(split), "undefined"), d) : d \in Directions}

Limits == {<<>>} \cup {<<v>> : v \in 1..MaxLimit}

\* having filters of a split: none, on the first label, on an apply, on both
matchLabel(label) ==
  [op |-> "match", operand |-> Ref(label, "undefined"), regexp |-> "^x", type |-> "BOOLEAN"]

overK == Unary("greaterThan", Ref(NameK, "NUMBER"), Literal(10, "NUMBER"), "BOOLEAN")

\* $label is 'x', and $label in {'x', 'y'}
isLabel(label) == isLiteral(Ref(label, "undefined"), "x")

inLabel(label) ==
  Unary("in", Ref(label, "undefined"), Literal(<<"x", "y">>, "SET/STRING"), "BOOLEAN")

Havings(split) ==
  {ExprTRUE, matchLabel(firstSplitName(split)), overK,
   Unary("and", matchLabel(firstSplitName(split)), overK, "BOOLEAN"),
   isLabel(firstSplitName(split)),
   Unary("and", inLabel(firstSplitName(split)), overK, "BOOLEAN"),
   Unary("and", matchLabel(firstSplitName(split)), isLabel(firstSplitName(split)),
         "BOOLEAN")}

QuerySelections == {"undefined", "any", "group-by-only"}

Contexts == {Null, [timeout |-> 10], [skipEmptyBuckets |-> "false"]}

\* what every External of the model shares
BaseExternal(ta) ==
  [mode |-> "raw", source |-> "wiki", filter |-> ExprTRUE, split |-> Null,
   applies |-> <<>>, valueExpression |-> Null, sort |-> Null, limit |-> <<>>,
   havingFilter |-> ExprTRUE, rawAttributes |-> Attributes(ta),
   derivedAttributes |-> <<>>, select |-> Null, context |-> Null,
   timeAttribute |-> ta, allowEternity |-> FALSE, allowSelectQueries |-> FALSE,
   exactResultsOnly |-> FALSE, querySelection |-> "undefined"]

Selects(ta) == {Null, [attributes |-> <<NameC>>], [attributes |-> <<NameC, ta>>]}

RawSorts(ta) ==
  {Null} \cup {SortEx(Ref(n, "undefined"), d) : n \in {ta, NameC}, d \in Directions}

\* the filter and the user context of a split External: every filter
\* constrains time
SplitRequests(ta) ==
  {[filter |-> timeFilter(ta), context |-> Null],
   [filter |-> Unary("and", timeFilter(ta), isLiteral(Ref(NameC, "STRING"), "x"), "BOOLEAN"),
    context |-> [timeout |-> 10]],
   [filter |-> timeFilter(ta), context |-> [skipEmptyBuckets |-> "false"]]}

\* the applies of a split External
SplitApplyLists(ta) ==
  {a \in ApplyLists(ta) : a = <<>> \/ a[1].expression.op # "max"}

\* the names an expression over the split's result may refer to: the split
\* keys and the applies
ResultNames(split, applies) ==
  {split.splits[i].name : i \in 1..Len(split.splits)}
    \cup {applies[i].name : i \in 1..Len(applies)}

Resolves(ex, split, applies) ==
  \A n \in AllNodes(ex) : n.op = "ref" => n.name \in ResultNames(split, applies)

InitRaw ==
  \E ta \in TimeNames :
    \E f \in Filters(ta), ae \in BOOLEAN, asq \in BOOLEAN, s \in RawSorts(ta),
       l \in Limits, sel \in Selects(ta), qs \in QuerySelections :
      ext = [BaseExternal(ta) EXCEPT
               !.filter = f, !.allowEternity = ae, !.allowSelectQueries = asq,
               !.sort = s, !.limit = l, !.select = sel, !.querySelection = qs]

InitValue ==
  \E ta \in TimeNames :
    \E f \in Filters(ta), ae \in BOOLEAN, v \in ValueExpressions(ta),
       qs \in QuerySelections, c \in Contexts :
      ext = [BaseExternal(ta) EXCEPT
               !.mode = "value", !.filter = f, !.allowEternity = ae,
               !.valueExpression = v, !.querySelection = qs, !.context = c]

InitTotal ==
  \E ta \in TimeNames :
    \E f \in Filters(ta), ae \in BOOLEAN, a \in TotalApplyLists(ta),
       qs \in QuerySelections, c \in Contexts :
      ext = [BaseExternal(ta) EXCEPT
               !.mode = "total", !.filter = f, !.allowEternity = ae,
               !.applies = a, !.querySelection = qs, !.context = c]

InitSplit ==
  \E sp \in SingleSplits(TIME_ATTRIBUTE) \cup MultiSplits(TIME_ATTRIBUTE) :
    \E r \in SplitRequests(TIME_ATTRIBUTE), a \in SplitApplyLists(TIME_ATTRIBUTE),
       s \in Sorts(sp), l \in Limits, h \in Havings(sp), ex \in BOOLEAN,
       qs \in QuerySelections :
      /\ Resolves(IF IsNull(s) THEN ExprTRUE ELSE s.expression, sp, a)
      /\ Resolves(h, sp, a)
      /\ ext = [BaseExternal(TIME_ATTRIBUTE) EXCEPT
                 !.mode = "split", !.filter = r.filter, !.context = r.context,
                 !.split = sp, !.applies = a,
                 !.sort = s, !.limit = l, !.havingFilter = h,
                 !.exactResultsOnly = ex, !.querySelection = qs]

(***************************************************************************)
(* What a call writes, and to which object.  The External and the object   *)
(* its context field holds outlive the call; every other object is made    *)
(* by the call.                                                            *)
(***************************************************************************)
ThisObject == "this"

ThisContext == "this.context"

NewObject == "new"

\* shallowCopy(obj): a new object with the own properties of obj
shallowCopy(obj) == NewObject

\* External.valueOf: a new value object holding the fields of the External
valueOf(obj) == NewObject

\* the object druidQuery.context holds, were the user context assigned as
\* it is
queryContextObject_NoCopy(e) ==
  IF IsNull(e.context) THEN NewObject ELSE ThisContext

\* the object druidQuery.context holds when the timeseries case writes to it
\* (lines 1589-1591, 1799)
queryContextObject(e) ==
  IF IsNull(e.context) THEN NewObject ELSE shallowCopy(ThisContext)

\* the write of line 1800, by a call on e that answered r
skipEmptyBucketsWrites(e, r) ==
  IF /\ r.ok
     /\ e.mode = "split"
     /\ r.query.queryType = "timeseries"
     /\ (IsNull(e.context) \/ "skipEmptyBuckets" \notin DOMAIN e.context)
  THEN <<[object |-> queryContextObject(e), field |-> "skipEmptyBuckets",
          value |-> "true"]>>
  ELSE <<>>

\* the assignments to the fields of a value object (lines 1527-1532, 1539-1547)
fieldWrites(object, value, fields) ==
  [i \in 1..Len(fields) |->
     [object |-> object, field |-> fields[i], value |-> value[fields[i]]]]

innerFields == <<"mode", "applies", "querySelection", "split", "limit", "sort">>

outerFields(e) ==
  <<"rawAttributes", IF appliesDefined(e) THEN "applies" ELSE "valueExpression",
    "filter", "allowEternity", "querySelection">>
  \o (IF IsNull(e.split) THEN <<>> ELSE <<"split">>)

\* the writes of nestedGroupByIfNeeded and of the two calls it makes; the
\* inner and the outer External hold the context object of this External
\* (lines 879, 891)
nestedWrites(e, n) ==
  IF ~n.nested \/ n.built = <<>> THEN <<>>
  ELSE fieldWrites(valueOf(ThisObject), n.built[1], innerFields)
       \o skipEmptyBucketsWrites(n.built[1], n.answers[1])
       \o (IF Len(n.built) < 2 THEN <<>>
           ELSE fieldWrites(valueOf(ThisObject), n.built[2], outerFields(e))
                \o skipEmptyBucketsWrites(n.built[2], n.answers[2]))

\* every write of one call of e.getQueryAndPostTransform() that answered r
writes(e, r) ==
  IF usesTimeBoundary(e) \/ ~filterToDruid(e, e.filter).ok \/ e.mode = "raw" THEN <<>>
  ELSE nestedWrites(e, nestedGroupByIfNeeded(e)) \o skipEmptyBucketsWrites(e, r)

\* the External once the writes from the i-th on have landed
RECURSIVE written(_, _, _)
written(e, ws, i) ==
  IF i > Len(ws) THEN e
  ELSE written(IF ws[i].object = ThisObject
               THEN [e EXCEPT ![ws[i].field] = ws[i].value]
               ELSE IF ws[i].object = ThisContext
               THEN [e EXCEPT !.context = (ws[i].field :> ws[i].value) @@ @]
               ELSE e,
               ws, i + 1)

(***************************************************************************)
(* The state machine: an External, and the outcome of planning it.         *)
(***************************************************************************)
NotPlanned == [ok |-> FALSE, error |-> "not planned"]

\* no rows are piped through a post-transform
NoStream == [rows |-> <<>>, position |-> 0, output |-> <<>>]

\* no introspection is under way
NoIntrospection == [pc |-> "idle"]

Init ==
  /\ InitRaw \/ InitValue \/ InitTotal \/ InitSplit
  /\ result = NotPlanned
  /\ calls = 0
  /\ stream = NoStream
  /\ intro = NoIntrospection

\* one call of ext.getQueryAndPostTransform()
Plan ==
  /\ calls < MaxCalls
  /\ LET answer(r) ==
           /\ result' = r
           /\ ext' = written(ext, writes(ext, r), 1)
     IN answer(getQueryAndPostTransform(ext))
  /\ calls' = calls + 1
  /\ UNCHANGED <<stream, intro>>

Next == Plan

Spec == Init /\ [][Next]_vars

(***************************************************************************)
(* A second state machine: getTimeBoundaryQueryAndPostTransform called on  *)
(* its own, on an External of any mode.                                    *)
(***************************************************************************)
InitSplitPlain ==
  \E sp \in SingleSplits(TIME_ATTRIBUTE), a \in SplitApplyLists(TIME_ATTRIBUTE),
     c \in Contexts :
    ext = [BaseExternal(TIME_ATTRIBUTE) EXCEPT
             !.mode = "split", !.filter = timeFilter(TIME_ATTRIBUTE), !.split = sp,
             !.applies = a, !.context = c]

InitTimeBoundary ==
  /\ InitRaw \/ InitValue \/ InitTotal \/ InitSplitPlain
  /\ result = NotPlanned
  /\ calls = 0
  /\ stream = NoStream
  /\ intro = NoIntrospection

\* one call of ext.getTimeBoundaryQueryAndPostTransform(); line 1348 hands
\* the context object over as it is, and nothing is written to it
PlanTimeBoundary ==
  /\ calls < MaxCalls
  /\ result' = getTimeBoundaryQueryAndPostTransform(ext)
  /\ calls' = calls + 1
  /\ UNCHANGED <<ext, stream, intro>>

NextTimeBoundary == PlanTimeBoundary

SpecTimeBoundary == InitTimeBoundary /\ [][NextTimeBoundary]_vars

(***************************************************************************)
(* A third state machine: the rows of a time boundary answer piped through *)
(* the post-transform of the plan.                                         *)
(***************************************************************************)
MaxRows == 2

\* new Date(v); a missing field reads as undefined
Date(v) == [date |-> v]

prop(d, name) == IF name \in DOMAIN d THEN d[name] ELSE "undefined"

\* a || b
orElse(a, b) == IF a = "undefined" THEN b ELSE a

\* the transform callback of timeBoundaryPostTransformFactory(applies) on
\* the row d (lines 564-589); typeof is the row's JavaScript type
timeBoundaryPostTransform(transform, d) ==
  IF "applies" \in DOMAIN transform
  THEN [type |-> "datum",
        datum |->
          [name \in {transform.applies[i].name : i \in 1..Len(transform.applies)} |->
             LET last == CHOOSE i \in 1..Len(transform.applies) :
                           /\ transform.applies[i].name = name
                           /\ \A j \in 1..Len(transform.applies) :
                                transform.applies[j].name = name => j <= i
             IN IF d.typeof = "string" THEN Date(d.value)
                ELSE IF transform.applies[last].expression.op = "max"
                THEN Date(orElse(prop(d, "maxIngestedEventTime"), prop(d, "maxTime")))
                ELSE Date(prop(d, "minTime"))]]
  ELSE [type |-> "value",
        value |-> Date(orElse(orElse(prop(d, "maxIngestedEventTime"), prop(d, "maxTime")),
                              prop(d, "minTime")))]

\* the rows of an answer: objects with some of the three time fields, and a
\* bare time string
TimeFields ==
  [minTime |-> "2020-01-01", maxTime |-> "2020-01-02", maxIngestedEventTime |-> "2020-01-03"]

Rows ==
  {[k \in fs \cup {"typeof"} |-> IF k = "typeof" THEN "object" ELSE TimeFields[k]] :
     fs \in SUBSET DOMAIN TimeFields}
  \cup {[typeof |-> "string", value |-> "2020-01-04"]}

RowLists == UNION {[1..n -> Rows] : n \in 0..MaxRows}

\* Externals whose plan is a time boundary query
TimeBoundaryExternals ==
  {e \in {[BaseExternal(TIME_ATTRIBUTE) EXCEPT !.mode = "value", !.valueExpression = v] :
            v \in ValueExpressions(TIME_ATTRIBUTE)}
          \cup {[BaseExternal(TIME_ATTRIBUTE) EXCEPT !.mode = "total", !.applies = a] :
                  a \in TotalApplyLists(TIME_ATTRIBUTE)} :
     usesTimeBoundary(e)}

InitStream ==
  /\ ext \in TimeBoundaryExternals
  /\ result = getQueryAndPostTransform(ext)
  /\ calls = 1
  /\ \E rows \in RowLists : stream = [rows |-> rows, position |-> 0, output |-> <<>>]
  /\ intro = NoIntrospection

\* the stream hands the next row to the transform, whose callback pushes one
\* record before it returns
Transform ==
  /\ stream.position < Len(stream.rows)
  /\ stream' = [stream EXCEPT
                  !.position = @ + 1,
                  !.output = Append(@, timeBoundaryPostTransform(
                                         result.postTransform,
                                         stream.rows[stream.position + 1]))]
  /\ UNCHANGED <<ext, result, calls, intro>>

NextStream == Transform

SpecStream == InitStream /\ [][NextStream]_vars

(***************************************************************************)
(* A fourth state machine: introspectAttributesWithSegmentMetadata, an     *)
(* async function that awaits the requester once or twice.  A response is  *)
(* the array toArray collects; an object with named members (columns,      *)
(* aggregators) is the sequence of its entries in enumeration order.       *)
(***************************************************************************)
MaxColumns == 2

\* DruidExternal.columnMetadataToRange
columnMetadataToRange(columnMetadata) ==
  IF "minValue" \notin DOMAIN columnMetadata \/ "maxValue" \notin DOMAIN columnMetadata
  THEN Null
  ELSE [start |-> columnMetadata.minValue, end |-> columnMetadata.maxValue,
        bounds |-> "[]"]

\* aggregators[name]: <<the member>>, or <<>> for undefined
member(entries, name) ==
  IF \E k \in 1..Len(entries) : entries[k].name = name
  THEN <<entries[CHOOSE k \in 1..Len(entries) : entries[k].name = name].value>>
  ELSE <<>>

\* cardinality: columnData.cardinality, left out when undefined
cardinalityOf(columnData) ==
  [k \in {"cardinality"} \cap DOMAIN columnData |-> columnData[k]]

\* DruidExternal.generateMaker, for aggregations other than 'javascript'
generateMaker(optionalAggregation) ==
  IF optionalAggregation = <<>> THEN Null
  ELSE LET aggregation == optionalAggregation[1]
           named == "fieldName" \in DOMAIN aggregation
           fieldName == IF named THEN aggregation.fieldName ELSE aggregation.fieldNames[1]
       IN IF aggregation.type = "longSum" /\ named
               /\ aggregation.fieldName = <<"c", "o", "u", "n", "t">>
          THEN Chain("count", MainRef, "NUMBER")
          ELSE IF ~named /\ ("fieldNames" \notin DOMAIN aggregation
                               \/ Len(aggregation.fieldNames) # 1)
          THEN Null
          ELSE CASE aggregation.type = "count" -> Chain("count", MainRef, "NUMBER")
                 [] aggregation.type \in {"doubleSum", "longSum"} ->
                      Unary("sum", MainRef, UntypedRef(fieldName), "NUMBER")
                 [] aggregation.type \in {"doubleMin", "longMin"} ->
                      Unary("min", MainRef, UntypedRef(fieldName), "NUMBER")
                 [] aggregation.type \in {"doubleMax", "longMax"} ->
                      Unary("max", MainRef, UntypedRef(fieldName), "NUMBER")
                 [] OTHER -> Null

\* attributes.push(a), were the time attribute pushed like the others
unshift_Push(attributes, a) == Append(attributes, a)

\* attributes.unshift(a) (line 668)
unshift(attributes, a) == <<a>> \o attributes

SketchTypes ==
  {"hyperUnique", "approximateHistogram", "thetaSketch", "HLLSketch",
   "quantilesDoublesSketch"}

\* the body of the loop over the columns (lines 663-730) for one column
columnToAttributes(timeAttribute, name, columnData, aggregators, st) ==
  IF "errorMessage" \in DOMAIN columnData \/ columnData.size < 0 THEN st
  ELSE IF name = TIME_ATTRIBUTE
  THEN [foundTime |-> TRUE,
        attributes |->
          unshift(st.attributes,
                  [name |-> timeAttribute, type |-> "TIME", nativeType |-> "__time",
                   range |-> columnMetadataToRange(columnData)]
                  @@ cardinalityOf(columnData))]
  ELSE IF name = timeAttribute THEN st
  ELSE [st EXCEPT !.attributes = Append(@,
          CASE columnData.type \in {"DOUBLE", "FLOAT", "LONG"} ->
                 [name |-> name, type |-> "NUMBER", nativeType |-> columnData.type,
                  unsplitable |-> \E k \in 1..Len(aggregators) : aggregators[k].name = name,
                  maker |-> generateMaker(member(aggregators, name)),
                  range |-> columnMetadataToRange(columnData)]
                 @@ cardinalityOf(columnData)
            [] columnData.type = "STRING" ->
                 [name |-> name,
                  type |-> IF "hasMultipleValues" \in DOMAIN columnData
                                /\ columnData.hasMultipleValues
                           THEN "SET/STRING" ELSE "STRING",
                  nativeType |-> columnData.type,
                  range |-> columnMetadataToRange(columnData)]
                 @@ cardinalityOf(columnData)
            [] columnData.type \in SketchTypes ->
                 [name |-> name, type |-> "NULL", nativeType |-> columnData.type,
                  unsplitable |-> TRUE]
            [] OTHER ->
                 [name |-> name, type |-> "NULL", nativeType |-> columnData.type])]

RECURSIVE columnsToAttributes(_, _, _, _, _)
columnsToAttributes(timeAttribute, columns, aggregators, i, st) ==
  IF i > Len(columns) THEN st
  ELSE columnsToAttributes(timeAttribute, columns, aggregators, i + 1,
         columnToAttributes(timeAttribute, columns[i].name, columns[i].value,
                            aggregators, st))

\* DruidExternal.segmentMetadataPostProcess
segmentMetadataPostProcess(timeAttribute, res) ==
  IF Len(res) = 0 \/ "columns" \notin DOMAIN res[1]
  THEN [ok |-> FALSE, error |-> "malformed segmentMetadata response"]
  ELSE LET finish(st) ==
             IF ~st.foundTime
             THEN [ok |-> FALSE, error |-> "no valid __time in segmentMetadata response"]
             ELSE [ok |-> TRUE, attributes |-> st.attributes]
       IN finish(columnsToAttributes(timeAttribute, res[1].columns,
                   IF "aggregators" \in DOMAIN res[1] THEN res[1].aggregators ELSE <<>>,
                   1, [foundTime |-> FALSE, attributes |-> <<>>]))

\* TimeRange.fromJS({start, end, bounds: '[]'}): a range needs both ends
timeRangeFromJS(start, end) ==
  IF start = "undefined" \/ end = "undefined"
  THEN [ok |-> FALSE, error |-> "timeRange must have a start and an end"]
  ELSE [ok |-> TRUE, range |-> [start |-> start, end |-> end, bounds |-> "[]"]]

\* the first query (lines 751-766)
segmentMetadataQuery(depth, context) ==
  [queryType |-> "segmentMetadata", dataSource |-> "wiki", merge |-> TRUE,
   analysisTypes |-> IF depth = "deep" THEN <<"aggregators", "cardinality", "minmax">>
                     ELSE <<"aggregators">>,
   lenientAggregatorMerge |-> TRUE]
  @@ (IF IsNull(context) THEN Empty ELSE [context |-> context])

\* the follow-up query (lines 778-785)
timeBoundaryQuery(context) ==
  [queryType |-> "timeBoundary", dataSource |-> "wiki"]
  @@ (IF IsNull(context) THEN Empty ELSE [context |-> context])

\* the test of lines 771-776
needsTimeBoundary(depth, attributes) ==
  /\ depth # "shallow"
  /\ Len(attributes) > 0
  /\ attributes[1].nativeType = "__time"
  /\ IsNull(attributes[1].range)

\* the catch block, were the error thrown on
swallow_Rethrow(i) == [i EXCEPT !.pc = "rejected"]

\* the catch block of lines 798-800: the function goes on to return attributes
swallow(i) == [i EXCEPT !.pc = "resolved"]

\* inputs: the depth asked for, the columns and aggregators Druid may report
Depths == {"shallow", "medium", "deep"}

ColumnCatalog ==
  {[name |-> TIME_ATTRIBUTE, value |-> [type |-> "LONG", size |-> 1]],
   [name |-> TIME_ATTRIBUTE,
    value |-> [type |-> "LONG", size |-> 1, cardinality |-> 7,
               minValue |-> "2020-01-01", maxValue |-> "2020-01-02"]],
   [name |-> TIME_ATTRIBUTE, value |-> [type |-> "LONG", size |-> -1]],
   [name |-> TIME_ATTRIBUTE,
    value |-> [type |-> "LONG", size |-> 1, errorMessage |-> "error:cannot_merge"]],
   [name |-> NameN, value |-> [type |-> "DOUBLE", size |-> 1]],
   [name |-> NameC, value |-> [type |-> "STRING", size |-> 1, hasMultipleValues |-> TRUE]],
   [name |-> NameU, value |-> [type |-> "hyperUnique", size |-> 1]],
   [name |-> <<"t", "s">>, value |-> [type |-> "STRING", size |-> 1]],
   [name |-> NameX, value |-> [type |-> "COMPLEX", size |-> 1]]}

ColumnLists ==
  {cs \in UNION {[1..n -> ColumnCatalog] : n \in 0..MaxColumns} :
     \A a, b \in 1..Len(cs) : cs[a].name = cs[b].name => a = b}

AggregatorLists ==
  {<<>>, <<[name |-> NameN, value |-> [type |-> "doubleSum", fieldName |-> NameN]]>>}

SegmentMetadataResponses ==
  {<<>>, <<[id |-> "merged"]>>}
  \cup {<<[columns |-> cs]>> : cs \in ColumnLists}
  \cup {<<[columns |-> cs, aggregators |-> as]>> : cs \in ColumnLists, as \in AggregatorLists}

TimeBoundaryResponses ==
  {<<>>, <<[timestamp |-> "2020-01-01"]>>,
   <<[minTime |-> "2020-01-01", maxTime |-> "2020-01-02"]>>}

\* the call: the function runs up to its first await (lines 751-768)
InitIntrospect ==
  /\ ext = BaseExternal(TIME_ATTRIBUTE)
  /\ result = NotPlanned
  /\ calls = 0
  /\ stream = NoStream
  /\ \E depth \in Depths, ta \in TimeNames, context \in {Null, [timeout |-> 10]} :
       intro = [pc |-> "start", depth |-> depth, timeAttribute |-> ta,
                context |-> context, requests |-> <<>>, responses |-> <<>>,
                attributes |-> <<>>, followUp |-> "none"]

Introspect ==
  /\ intro.pc = "start"
  /\ intro' = [intro EXCEPT
                 !.pc = "segmentMetadata",
                 !.requests = Append(@, segmentMetadataQuery(intro.depth, intro.context))]
  /\ UNCHANGED <<ext, result, calls, stream>>

\* the requester's stream fails: the await of line 768 throws
SegmentMetadataRejects ==
  /\ intro.pc = "segmentMetadata"
  /\ intro' = [intro EXCEPT !.pc = "rejected"]
  /\ UNCHANGED <<ext, result, calls, stream>>

\* the await of line 768 returns res: lines 769-787, up to the next await
\* or to the return
SegmentMetadataAnswers ==
  /\ intro.pc = "segmentMetadata"
  /\ \E res \in SegmentMetadataResponses :
       LET processed(a) ==
             IF ~a.ok
             THEN [intro EXCEPT !.pc = "rejected", !.responses = Append(@, res)]
             ELSE IF needsTimeBoundary(intro.depth, a.attributes)
             THEN [intro EXCEPT
                     !.pc = "timeBoundary", !.responses = Append(@, res),
                     !.attributes = a.attributes,
                     !.requests = Append(@, timeBoundaryQuery(intro.context))]
             ELSE [intro EXCEPT !.pc = "resolved", !.responses = Append(@, res),
                                !.attributes = a.attributes]
       IN intro' = processed(segmentMetadataPostProcess(intro.timeAttribute, res))
  /\ UNCHANGED <<ext, result, calls, stream>>

\* the requester's stream fails: the await of line 787 throws into the catch
TimeBoundaryRejects ==
  /\ intro.pc = "timeBoundary"
  /\ intro' = swallow([intro EXCEPT !.followUp = "rejected"])
  /\ UNCHANGED <<ext, result, calls, stream>>

\* the await of line 787 returns resTB: lines 788-801
TimeBoundaryAnswers ==
  /\ intro.pc = "timeBoundary"
  /\ \E resTB \in TimeBoundaryResponses :
       LET ranged(r) ==
             IF ~r.ok
             THEN swallow([intro EXCEPT !.followUp = "malformed",
                                        !.responses = Append(@, resTB)])
             ELSE [intro EXCEPT !.pc = "resolved", !.followUp = "answered",
                                !.responses = Append(@, resTB),
                                !.attributes[1].range = r.range]
       IN intro' = ranged(IF Len(resTB) = 0
                          THEN [ok |-> FALSE, error |-> "resTB0 is undefined"]
                          ELSE timeRangeFromJS(prop(resTB[1], "minTime"),
                                               prop(resTB[1], "maxTime")))
  /\ UNCHANGED <<ext, result, calls, stream>>

NextIntrospect ==
  \/ Introspect
  \/ SegmentMetadataRejects
  \/ SegmentMetadataAnswers
  \/ TimeBoundaryRejects
  \/ TimeBoundaryAnswers

SpecIntrospect == InitIntrospect /\ [][NextIntrospect]_vars

(***************************************************************************)
(* What the properties speak of.                                           *)
(***************************************************************************)
Planned == calls > 0

\* the call returned a query
Emitted == Planned /\ result.ok

\* an apply (or the value expression) holds a split
HoldsSplit(e) ==
  \E i \in 1..Len(effectiveApplies(e)) :
    \E n \in AllNodes(effectiveApplies(e)[i].expression) : n.op = "split"

\* an aggregate over an apply over a split of the main dataset, filtered
\* or not
IsResplitAggregate(n) ==
  /\ HasOperand(n)
  /\ isAggregate(n)
  /\ n.operand.op = "apply"
  /\ n.operand.operand.op = "split"
  /\ \/ IsRef(n.operand.operand.operand)
     \/ /\ n.operand.operand.operand.op = "filter"
        /\ IsRef(n.operand.operand.operand.operand)

\* the aggregates of the applies (or of the value expression) that are
\* re-split aggregates; an aggregate inside an aggregate is not among them
ResplitAggregates(e) ==
  {a \in UNION {{aggregatesOf(effectiveApplies(e)[i].expression)[p] :
                   p \in 1..Len(aggregatesOf(effectiveApplies(e)[i].expression))} :
                  i \in 1..Len(effectiveApplies(e))} :
     IsResplitAggregate(a)}

\* an apply (or the value expression) holds a re-split aggregate
HasResplit(e) == ResplitAggregates(e) # {}

SingleKey(e) == Len(e.split.splits) = 1

SplitLabel(e) == e.split.splits[1].name

KeyExpression(e) == e.split.splits[1].expression

\* a split plan that is not a re-split plan and not a timeseries
NotTimeseriesSplit ==
  /\ Emitted
  /\ ext.mode = "split"
  /\ ~HasResplit(ext)
  /\ result.query.queryType # "timeseries"

\* the dimensions of a query, and what a filtered dimension wraps
DimensionsOf(q) ==
  IF "dimension" \in DOMAIN q THEN <<q.dimension>>
  ELSE IF "dimensions" \in DOMAIN q THEN q.dimensions
  ELSE <<>>

BaseDimension(d) == IF "delegate" \in DOMAIN d THEN d.delegate ELSE d

VirtualColumnsOf(q) == IF "virtualColumns" \in DOMAIN q THEN q.virtualColumns ELSE <<>>

(***************************************************************************)
(* C1: timeseries.                                                         *)
(***************************************************************************)
\* the sort is absent or is a ref whose name equals the split label
TimeCompatibleSort(e) ==
  \/ IsNull(e.sort)
  \/ /\ e.sort.expression.op = "ref"
     /\ e.sort.expression.name = SplitLabel(e)

\* the split expression is the bare time ref, or a TimeBucket / TimeFloor
\* whose operand is the time ref
TimeGranular(e) ==
  LET x == KeyExpression(e)
  IN \/ x.op = "ref" /\ x.name = e.timeAttribute
     \/ /\ x.op \in {"timeBucket", "timeFloor"}
        /\ x.operand.op = "ref"
        /\ x.operand.name = e.timeAttribute

TimeseriesConditions(e) ==
  /\ SingleKey(e)
  /\ e.querySelection # "group-by-only"
  /\ e.limit = <<>>
  /\ TimeCompatibleSort(e)
  /\ e.havingFilter = ExprTRUE
  /\ TimeGranular(e)

\* C1: in split mode with no re-split aggregate, the emitted queryType is
\* 'timeseries' if and only if the split has a single key, querySelection is
\* not 'group-by-only', there is no limit, the sort is absent or a ref to the
\* split label, the having filter is TRUE and the split expression is the
\* time ref or a TimeBucket / TimeFloor of the time ref.  Hence no timeseries
\* is emitted for an External with a limit or a sort on a non-split key.
C1_TimeseriesIff ==
  (Emitted /\ ext.mode = "split" /\ ~HasResplit(ext)) =>
    /\ result.query.queryType = "timeseries" <=> TimeseriesConditions(ext)
    /\ result.query.queryType = "timeseries" =>
         /\ ext.limit = <<>>
         /\ IsNull(ext.sort) \/ hasKey(ext.split, ext.sort.expression.name)

\* a timeseries emitted for a TimeFloor split sorted on its label
C1_Witness ==
  /\ Emitted
  /\ ext.mode = "split"
  /\ ~HasResplit(ext)
  /\ result.query.queryType = "timeseries"
  /\ ~IsNull(ext.sort)
  /\ KeyExpression(ext).op = "timeFloor"

(***************************************************************************)
(* C2: topN or groupBy.                                                    *)
(***************************************************************************)
\* what is left of the having filter once the conjunct on the split label
\* was pushed into a filtered dimension
LeftoverHaving(e) ==
  expressionToDimensionInflaterHaving(e, KeyExpression(e), SplitLabel(e),
                                      e.havingFilter).having

\* the conditions the claim lists; querySelection 'any' is also what an
\* unset querySelection means
TopNConditions(e) ==
  /\ SingleKey(e)
  /\ ~e.exactResultsOnly
  /\ topNCompatibleSort(e)
  /\ e.limit # <<>> \/ maxBucketNumber(e.split) < TopNMaxBuckets
  /\ e.querySelection \in {"undefined", "any"}

HasFilterOnTime(e, ex) ==
  \E n \in AllNodes(ex) :
    /\ n.op = "filter"
    /\ \E m \in AllNodes(n.expression) : m.op = "ref" /\ m.name = e.timeAttribute

\* the sort is a ref that names an apply (the first of that name)
SortNamesApply(e, i) ==
  /\ ~IsNull(e.sort)
  /\ e.sort.expression.op = "ref"
  /\ e.applies[i].name = e.sort.expression.name
  /\ \A j \in 1..(i - 1) : e.applies[j].name # e.sort.expression.name

SortOnTimeFilteredApply(e) ==
  \E i \in 1..Len(e.applies) :
    SortNamesApply(e, i) /\ HasFilterOnTime(e, e.applies[i].expression)

SortOnCleanApply(e) ==
  \E i \in 1..Len(e.applies) :
    SortNamesApply(e, i) /\ ~HasFilterOnTime(e, e.applies[i].expression)

\* C3 (amended): topNCompatibleSort() fails exactly when the sort's ref
\* resolves to an apply whose expression contains a FilterExpression that
\* mentions the time ref; it holds when there is no sort and when the sort
\* ref names no apply (a sort on the split label).  Only a sort on such a
\* time-filtered apply makes the single-split plan fall through to groupBy
\* for this reason.
C3_TopNCompatibleSort ==
  (Planned /\ ext.mode = "split") =>
    /\ topNCompatibleSort(ext) <=> ~SortOnTimeFilteredApply(ext)
    /\ (NotTimeseriesSplit /\ result.query.queryType = "topN") =>
         ~SortOnTimeFilteredApply(ext)
    /\ (NotTimeseriesSplit /\ SortOnTimeFilteredApply(ext)) =>
         result.query.queryType = "groupBy"

\* C3 as stated: a topN is emitted only when the sort's ref resolves to an
\* apply without a filter on time
C3_TopNOnlyOnCleanApply ==
  (NotTimeseriesSplit /\ result.query.queryType = "topN") => SortOnCleanApply(ext)

\* a topN emitted for a sort on the split label, which names no apply
C3_Witness ==
  /\ NotTimeseriesSplit
  /\ result.query.queryType = "topN"
  /\ ~IsNull(ext.sort)
  /\ ext.sort.expression.name = SplitLabel(ext)
  /\ ext.applies # <<>>

(***************************************************************************)
(* C4: timeBoundary.                                                       *)
(***************************************************************************)
MinMaxOfTime(e, x) ==
  /\ x.op \in {"min", "max"}
  /\ x.expression.op = "ref"
  /\ x.expression.name = e.timeAttribute

AllMinMaxOfTime(e) ==
  \A i \in 1..Len(e.applies) : MinMaxOfTime(e, e.applies[i].expression)

TimeBoundaryConditions(e) ==
  \/ e.mode = "total" /\ e.applies # <<>> /\ AllMinMaxOfTime(e)
  \/ e.mode = "value" /\ MinMaxOfTime(e, e.valueExpression)

\* C4 (amended): with querySelection not 'group-by-only', total mode emits
\* 'timeBoundary' exactly when there is at least one apply and every apply
\* is a min or max of the time ref, value mode exactly when the value
\* expression is a min or max of the time ref; otherwise (no re-split) total
\* and value modes emit 'timeseries' with granularity 'all' and no dimension.
C4_TimeBoundaryIff ==
  (Planned /\ ext.mode \in {"total", "value"} /\ ext.querySelection # "group-by-only") =>
    /\ TimeBoundaryConditions(ext) =>
         result.ok /\ result.query.queryType = "timeBoundary"
    /\ (~TimeBoundaryConditions(ext) /\ result.ok /\ ~HasResplit(ext)) =>
         /\ result.query.queryType = "timeseries"
         /\ result.query.granularity = "all"
         /\ "dimension" \notin DOMAIN result.query
         /\ "dimensions" \notin DOMAIN result.query

\* C4 as stated: in total mode 'timeBoundary' exactly when every apply is a
\* min or max of the time ref
C4_TimeBoundaryIffEveryApply ==
  (Emitted /\ ext.mode = "total" /\ ext.querySelection # "group-by-only") =>
    (result.query.queryType = "timeBoundary" <=> AllMinMaxOfTime(ext))

\* a timeBoundary emitted for the two applies max(time) and min(time)
C4_Witness ==
  /\ Emitted
  /\ ext.mode = "total"
  /\ Len(ext.applies) = 2
  /\ AllMinMaxOfTime(ext)
  /\ result.query.queryType = "timeBoundary"

(***************************************************************************)
(* C5: group-by-only.                                                      *)
(***************************************************************************)
\* C5: when querySelection is 'group-by-only', every query emitted for mode
\* value, total or split has queryType 'groupBy', also when all applies are
\* min/max of the time ref; for value and total its dimensions are [].  The
\* outer and the inner query of a re-split plan are groupBy queries.
C5_GroupByOnly ==
  /\ (Emitted /\ ext.querySelection = "group-by-only"
              /\ ext.mode \in {"value", "total", "split"}) =>
       /\ result.query.queryType = "groupBy"
       /\ ext.mode \in {"value", "total"} => result.query.dimensions = <<>>
  /\ (Emitted /\ ext.mode \in {"value", "total", "split"} /\ HasResplit(ext)) =>
       /\ result.query.queryType = "groupBy"
       /\ result.query.dataSource.query.queryType = "groupBy"

\* a zero-dimension groupBy emitted in total mode although every apply is a
\* min / max of the time ref
C5_Witness ==
  /\ Emitted
  /\ ext.querySelection = "group-by-only"
  /\ ext.mode = "total"
  /\ ext.applies # <<>>
  /\ AllMinMaxOfTime(ext)
  /\ result.query.queryType = "groupBy"

(***************************************************************************)
(* C6: raw mode.                                                           *)
(***************************************************************************)
AllowSelectQueriesError ==
  "to issue 'scan' or 'select' queries allowSelectQueries flag must be set"

\* C6: in raw mode the call fails and returns no query whenever
\* allowSelectQueries is false, for every filter, sort, limit and selection;
\* when allowSelectQueries is true the call never fails for want of the flag
\* and the query it emits has queryType 'scan' and resultFormat
\* 'compactedList'.
C6_RawNeedsAllowSelectQueries ==
  (Planned /\ ext.mode = "raw") =>
    /\ ~ext.allowSelectQueries =>
         /\ ~result.ok
         /\ "query" \notin DOMAIN result
         /\ ext.filter # ExprTRUE => result.error = AllowSelectQueriesError
    /\ ext.allowSelectQueries =>
         IF result.ok
         THEN /\ result.query.queryType = "scan"
              /\ result.query.resultFormat = "compactedList"
         ELSE result.error # AllowSelectQueriesError

\* the refusal, for an External with a time filter, a sort, a limit and a
\* selection
C6_Witness ==
  /\ Planned
  /\ ext.mode = "raw"
  /\ ~ext.allowSelectQueries
  /\ ext.filter # ExprTRUE
  /\ ~IsNull(ext.sort)
  /\ ext.limit # <<>>
  /\ ~IsNull(ext.select)
  /\ result = [ok |-> FALSE, error |-> AllowSelectQueriesError]

(***************************************************************************)
(* C7: a filter on time only.                                              *)
(***************************************************************************)
\* every conjunct of the filter constrains the time attribute
TimeOnlyFilter(e) ==
  LET cs == Conjuncts(e.filter)
  IN /\ e.filter # ExprTRUE
     /\ \A i \in 1..Len(cs) :
          /\ cs[i].op \in {"overlap", "is"}
          /\ cs[i].operand.op = "ref"
          /\ cs[i].operand.name = e.timeAttribute

\* C7: for every External whose filter constrains only the time attribute,
\* the emitted query (in every mode and shape, timeBoundary included) has a
\* non-empty 'intervals' field and no 'filter' field.
C7_TimeOnlyFilterIntervals ==
  (Emitted /\ TimeOnlyFilter(ext)) =>
    /\ "intervals" \in DOMAIN result.query
    /\ result.query.intervals # <<>>
    /\ "filter" \notin DOMAIN result.query

(***************************************************************************)
(* C8: dimensions and virtual columns.                                     *)
(***************************************************************************)
AttributeNames(e) == {e.rawAttributes[i].name : i \in 1..Len(e.rawAttributes)}

\* C8: for every split plan, every emitted dimension's 'dimension' field
\* names a base attribute of the External (or '__time') or a virtual column
\* declared in the same query; the virtual-column names of one query are
\* pairwise distinct and each begins with 'v:'.
C8_DimensionsDeclared ==
  (Emitted /\ ext.mode = "split" /\ ~HasResplit(ext)) =>
    LET dims == DimensionsOf(result.query)
        vcs == VirtualColumnsOf(result.query)
    IN /\ \A i \in 1..Len(dims) :
            BaseDimension(dims[i]).dimension \in
              AttributeNames(ext) \cup {TIME_ATTRIBUTE}
                \cup {vcs[j].name : j \in 1..Len(vcs)}
       /\ \A j \in 1..Len(vcs) : StartsWith(vcs[j].name, <<"v", ":">>)
       /\ \A j, k \in 1..Len(vcs) : j # k => vcs[j].name # vcs[k].name

(***************************************************************************)
(* C9: unsplitable attributes.                                             *)
(***************************************************************************)
ReferencesUnsplitable(e, x) ==
  \E n \in AllNodes(x) :
    /\ n.op = "ref"
    /\ \E i \in 1..Len(e.rawAttributes) :
         e.rawAttributes[i].name = n.name /\ e.rawAttributes[i].unsplitable

\* C9: for every split-key expression that references an unsplitable
\* attribute, expressionToDimensionInflater fails with the 'references an
\* un-splitable metric' error and emits no dimension, whatever the shape of
\* the expression.
C9_UnsplitableFails ==
  (Planned /\ ext.mode = "split") =>
    \A i \in 1..Len(ext.split.splits) :
      ReferencesUnsplitable(ext, ext.split.splits[i].expression) =>
        expressionToDimensionInflater(ext, ext.split.splits[i].expression,
                                      ext.split.splits[i].name)
          = [ok |-> FALSE, error |-> "references an un-splitable metric"]

(***************************************************************************)
(* C10: output names.                                                      *)
(***************************************************************************)
\* L when L does not begin with '__', '***' + L when it does
ExpectedOutputName(L) ==
  IF Len(L) >= 2 /\ L[1] = "_" /\ L[2] = "_" THEN <<"*", "*", "*">> \o L ELSE L

\* C10: every dimension outputName and every groupBy order-by / default
\* limitSpec column emitted for a split label L equals L when L does not
\* begin with '__' and '***' + L when it does; no emitted output name begins
\* with '__'; makeOutputName is idempotent; the requester context carries
\* dummyPrefix '***'.
C10_OutputNames ==
  (Emitted /\ ext.mode = "split") =>
    LET q == result.query
        dims == DimensionsOf(q)
        keys == ext.split.splits
    IN /\ q.queryType # "timeseries" =>
            /\ Len(dims) = Len(keys)
            /\ \A i \in 1..Len(dims) :
                 /\ BaseDimension(dims[i]).outputName = ExpectedOutputName(keys[i].name)
                 /\ ~StartsWith(BaseDimension(dims[i]).outputName, <<"_", "_">>)
       /\ (q.queryType = "groupBy" /\ "limitSpec" \in DOMAIN q) =>
            IF ~IsNull(ext.sort)
            THEN q.limitSpec.columns[1].dimension
                   = ExpectedOutputName(ext.sort.expression.name)
            ELSE q.limitSpec.columns[1].column = ExpectedOutputName(keys[1].name)
       /\ \A i \in 1..Len(keys) :
            makeOutputName(makeOutputName(keys[i].name)) = makeOutputName(keys[i].name)
       /\ result.context.dummyPrefix = <<"*", "*", "*">>

\* a groupBy over a label that begins with '__', sorted on that label and
\* limited
C10_Witness ==
  /\ Emitted
  /\ ext.mode = "split"
  /\ result.query.queryType = "groupBy"
  /\ StartsWith(SplitLabel(ext), <<"_", "_">>)
  /\ ~IsNull(ext.sort)
  /\ ext.sort.expression.name = SplitLabel(ext)
  /\ ext.limit # <<>>

(***************************************************************************)
(* C11: the having filter pushed into a SET/STRING dimension.              *)
(***************************************************************************)
\* the conjunct constrains the label directly: $L match regex, $L is literal,
\* $L in literal set
ConstrainsLabelDirectly(c, label) ==
  /\ c.op \in {"match", "is", "in"}
  /\ c.operand.op = "ref"
  /\ c.operand.name = label
  /\ c.op \in {"is", "in"} => c.expression.op = "literal"

DirectConjuncts(hf, label) ==
  SelectSeq(Conjuncts(hf), LAMBDA c : ConstrainsLabelDirectly(c, label))

RemainingConjuncts(hf, label) ==
  AndOf(SelectSeq(Conjuncts(hf), LAMBDA c : ~ConstrainsLabelDirectly(c, label)))

\* C11: for a split key of type SET/STRING with label L and a having filter
\* with one conjunct directly constraining L (match, is literal, in literal
\* set), expressionToDimensionInflaterHaving returns a 'regexFiltered'
\* (match) or 'listFiltered' (is / in) dimension with the plain dimension as
\* delegate, and the returned having is exactly the remaining conjuncts; for
\* a key of any other type the dimension is unchanged and the having whole.
C11_HavingPushedDown ==
  (Planned /\ ext.mode = "split" /\ SingleKey(ext)) =>
    LET plain == expressionToDimensionInflater(ext, KeyExpression(ext), SplitLabel(ext))
        pushed == expressionToDimensionInflaterHaving(ext, KeyExpression(ext),
                                                      SplitLabel(ext), ext.havingFilter)
        direct == DirectConjuncts(ext.havingFilter, SplitLabel(ext))
    IN plain.ok =>
         IF KeyExpression(ext).type = "SET/STRING"
         THEN Len(direct) = 1 =>
                /\ pushed.dimension.type =
                     (IF direct[1].op = "match" THEN "regexFiltered" ELSE "listFiltered")
                /\ pushed.dimension.delegate = plain.dimension
                /\ pushed.having = RemainingConjuncts(ext.havingFilter, SplitLabel(ext))
         ELSE /\ pushed.dimension = plain.dimension
              /\ pushed.having = ext.havingFilter

(***************************************************************************)
(* C12: the context of the query.                                          *)
(***************************************************************************)
UserContext(e) == IF IsNull(e.context) THEN Empty ELSE e.context

QueryContext(q) == IF "context" \in DOMAIN q THEN q.context ELSE Empty

TimeseriesSplitPlan ==
  /\ Emitted
  /\ ext.mode = "split"
  /\ ~HasResplit(ext)
  /\ result.query.queryType = "timeseries"

\* C12: for every timeseries split plan the emitted query.context holds
\* every user-supplied context key with its value unchanged, and in addition
\* skipEmptyBuckets = 'true' exactly when the user context has no
\* skipEmptyBuckets key of its own; for every other shape the emitted
\* context has no injected key.
C12_ContextPassedThrough ==
  Emitted =>
    LET user == UserContext(ext)
        sent == QueryContext(result.query)
    IN /\ \A k \in DOMAIN user : k \in DOMAIN sent /\ sent[k] = user[k]
       /\ IF TimeseriesSplitPlan
          THEN /\ DOMAIN sent = DOMAIN user \cup {"skipEmptyBuckets"}
               /\ "context" \in DOMAIN result.query
               /\ "skipEmptyBuckets" \notin DOMAIN user =>
                    sent.skipEmptyBuckets = "true"
          ELSE /\ DOMAIN sent = DOMAIN user
               /\ "context" \in DOMAIN result.query <=> ~IsNull(ext.context)

\* a timeseries split plan that keeps the user's skipEmptyBuckets = 'false'
C12_Witness ==
  /\ TimeseriesSplitPlan
  /\ ext.context = [skipEmptyBuckets |-> "false"]
  /\ result.query.context = [skipEmptyBuckets |-> "false"]

(***************************************************************************)
(* C13: planning leaves the External as it was.                            *)
(***************************************************************************)
\* C13: every call of getQueryAndPostTransform, successful or failing,
\* re-split plans included, leaves every field of the External unchanged:
\* the injected skipEmptyBuckets, the deleted inner context and the
\* overridden inner and outer fields land on copies.
C13_ExternalUnchanged == [][ext' = ext]_vars

\* a timeseries plan that injected skipEmptyBuckets next to a user key
C13_WitnessInjected ==
  /\ TimeseriesSplitPlan
  /\ ext.context = [timeout |-> 10]
  /\ result.query.context = [timeout |-> 10, skipEmptyBuckets |-> "true"]

(***************************************************************************)
(* C14: re-split aggregates share one inner split.                         *)
(***************************************************************************)
\* the call gets as far as nestedGroupByIfNeeded
ReachesNested(e) ==
  /\ ~usesTimeBoundary(e)
  /\ filterToDruid(e, e.filter).ok
  /\ e.mode # "raw"

\* the keys of the inner splits of the re-split aggregates across the applies
ResplitSplits(e) == {n.operand.operand.splits : n \in ResplitAggregates(e)}

SameSplitError == "all resplit aggregators must have the same split"

\* C14: when two re-split aggregates across the applies, in one apply or in
\* two, have unequal inner splits, planning fails with 'all resplit
\* aggregators must have the same split' and returns no query; when all
\* inner splits are equal, planning does not fail with that error.
C14_SameResplitSplit ==
  (Planned /\ ReachesNested(ext)) =>
    IF Cardinality(ResplitSplits(ext)) > 1
    THEN ~result.ok /\ result.error = SameSplitError
    ELSE result.ok \/ result.error # SameSplitError

\* two applies whose re-split aggregates split by day and by hour
C14_Witness ==
  /\ Planned
  /\ ext.mode = "total"
  /\ Len(ext.applies) = 2
  /\ Cardinality(ResplitSplits(ext)) = 2
  /\ ~result.ok
  /\ result.error = SameSplitError

\* two re-split aggregates over one inner split are planned
C14_WitnessEqual ==
  /\ Emitted
  /\ Cardinality(ResplitSplits(ext)) = 1
  /\ \E i \in 1..Len(effectiveApplies(ext)) :
       Len(SelectSeq(aggregatesOf(effectiveApplies(ext)[i].expression),
                     IsResplitAggregate)) = 2

(***************************************************************************)
(* C15: the shape of a re-split plan.                                      *)
(***************************************************************************)
WithoutContext(q) == [k \in DOMAIN q \ {"context"} |-> q[k]]

ResplitPlanShape(n, q) ==
  /\ Len(n.built) = 2
  /\ n.built[1].mode = "split"
  /\ n.built[1].querySelection = "group-by-only"
  /\ IsNull(n.built[1].sort)
  /\ n.built[1].limit = <<>>
  /\ n.built[2].filter = ExprTRUE
  /\ n.built[2].allowEternity
  /\ n.built[2].querySelection = "group-by-only"
  /\ q.queryType = "groupBy"
  /\ q.dataSource.type = "query"
  /\ q.dataSource.query.queryType = "groupBy"
  /\ "limitSpec" \notin DOMAIN q.dataSource.query
  /\ "context" \notin DOMAIN q.dataSource.query
  /\ q.dataSource.query = WithoutContext(n.answers[1].query)
  /\ [q EXCEPT !.dataSource = "wiki"] = [n.answers[2].query EXCEPT !.dataSource = "wiki"]

\* C15: in every re-split plan the inner planner has mode 'split',
\* querySelection 'group-by-only', no sort and no limit, and its query is a
\* groupBy without limitSpec and without context; the outer planner has
\* filter TRUE, allowEternity true and querySelection 'group-by-only'; the
\* query returned is the outer groupBy over the dataSource
\* {type: 'query', query: the inner query}.
C15_ResplitPlan ==
  (Emitted /\ ReachesNested(ext) /\ HasResplit(ext)) =>
    \A n \in {nestedGroupByIfNeeded(ext)} : ResplitPlanShape(n, result.query)

\* a re-split plan of a split with a limit and a user context
C15_Witness ==
  /\ Emitted
  /\ HasResplit(ext)
  /\ ext.mode = "split"
  /\ ext.limit # <<>>
  /\ ~IsNull(ext.context)
  /\ result.query.dataSource.type = "query"
  /\ "limitSpec" \in DOMAIN result.query

(***************************************************************************)
(* C16: the bound of a time boundary query.  These are properties of       *)
(* SpecTimeBoundary.                                                       *)
(***************************************************************************)
\* the applies of a total External, or the value expression, are min or max
\* of the time attribute; ops are the aggregates asked for
AsksTimeBounds(e) ==
  \/ /\ e.mode = "total"
     /\ Len(e.applies) > 0
     /\ \A i \in 1..Len(e.applies) : isMinMaxTimeExpression(e, e.applies[i].expression)
  \/ /\ e.mode = "value"
     /\ isMinMaxTimeExpression(e, e.valueExpression)

BoundsAsked(e) ==
  IF e.mode = "total" THEN {e.applies[i].expression.op : i \in 1..Len(e.applies)}
  ELSE {e.valueExpression.op}

InvalidMode ==
  (Planned /\ ext.mode \notin {"total", "value"}) =>
    ~result.ok /\ result.error = "invalid mode for timeBoundary"

\* C16 as stated: bound is 'maxTime' when only max(time) is asked for and
\* 'minTime' when only min(time) is (total mode with one apply, or value
\* mode), bound is absent only when both are asked for, and any mode other
\* than total or value fails with 'invalid mode'.
C16_BoundAsStated ==
  /\ InvalidMode
  /\ (Planned /\ AsksTimeBounds(ext)) =>
       /\ result.ok
       /\ (ext.mode = "value" \/ Len(ext.applies) = 1) =>
            /\ "bound" \in DOMAIN result.query
            /\ BoundsAsked(ext) = {"max"} => result.query.bound = <<"max", "Time">>
            /\ BoundsAsked(ext) = {"min"} => result.query.bound = <<"min", "Time">>
       /\ "bound" \notin DOMAIN result.query => BoundsAsked(ext) = {"min", "max"}

\* C16, amended: bound is the aggregate's op followed by 'Time' in value
\* mode and in total mode with exactly one apply; bound is absent exactly
\* in total mode with any other number of applies, whether they ask for
\* both bounds or for one bound twice; any mode other than total or value
\* fails with 'invalid mode'.
C16_Bound ==
  /\ InvalidMode
  /\ (Planned /\ AsksTimeBounds(ext)) =>
       /\ result.ok
       /\ result.query.queryType = "timeBoundary"
       /\ "bound" \notin DOMAIN result.query <=>
            (ext.mode = "total" /\ Len(ext.applies) # 1)
       /\ "bound" \in DOMAIN result.query =>
            /\ BoundsAsked(ext) \in {{"min"}, {"max"}}
            /\ \A op \in BoundsAsked(ext) : result.query.bound = <<op, "Time">>

\* max(time) asked for under two names: the query has no bound
C16_Witness ==
  /\ Emitted
  /\ ext.mode = "total"
  /\ Len(ext.applies) = 2
  /\ AsksTimeBounds(ext)
  /\ BoundsAsked(ext) = {"max"}
  /\ "bound" \notin DOMAIN result.query

(***************************************************************************)
(* C17: the post-transform of a time boundary plan.  A property of         *)
(* SpecStream.                                                             *)
(***************************************************************************)
MaxTimeOf(d) == Date(orElse(prop(d, "maxIngestedEventTime"), prop(d, "maxTime")))

MinTimeOf(d) == Date(prop(d, "minTime"))

\* the object row d carries the time the value expression asks for
CarriesAsked(e, d) ==
  IF e.valueExpression.op = "max"
  THEN "maxTime" \in DOMAIN d \/ "maxIngestedEventTime" \in DOMAIN d
  ELSE "minTime" \in DOMAIN d

\* the record the statement describes for the object row d
RecordAsStated(e, d, record) ==
  IF e.mode = "total"
  THEN /\ record.type = "datum"
       /\ DOMAIN record.datum = {e.applies[i].name : i \in 1..Len(e.applies)}
       /\ \A i \in 1..Len(e.applies) :
            record.datum[e.applies[i].name] =
              IF e.applies[i].expression.op = "max" THEN MaxTimeOf(d) ELSE MinTimeOf(d)
  ELSE /\ record.type = "value"
       /\ CarriesAsked(e, d) =>
            record.value =
              IF e.valueExpression.op = "max" THEN MaxTimeOf(d) ELSE MinTimeOf(d)

\* C17: the post-transform has emitted exactly one record per row handed to
\* it, in the order of the rows and with none held back: with applies a
\* 'datum' record whose max applies hold maxIngestedEventTime if present,
\* else maxTime, and whose min applies hold minTime; in value mode a 'value'
\* record holding the max time for a max value expression and the min time
\* for a min value expression, whatever other fields the row carries
\* besides that time.
C17_OneRecordPerRow ==
  /\ Len(stream.output) = stream.position
  /\ \A i \in 1..stream.position :
       stream.rows[i].typeof = "object" =>
         RecordAsStated(ext, stream.rows[i], stream.output[i])

\* what does hold: one record per row, in order, each the transform of its row
C17_InOrder ==
  /\ Len(stream.output) = stream.position
  /\ \A i \in 1..stream.position :
       stream.output[i] =
         timeBoundaryPostTransform(result.postTransform, stream.rows[i])

(***************************************************************************)
(* C18: the requests of an introspection.  A property of SpecIntrospect.   *)
(***************************************************************************)
Settled == intro.pc \in {"resolved", "rejected"}

\* C18: introspection issues at most two requests, one after the other:
\* first a segmentMetadata query (analysisTypes ['aggregators'], with
\* 'cardinality' and 'minmax' only when depth is 'deep') and, only once its
\* response has been processed, a timeBoundary query, issued only when depth
\* is 'deep' and the time attribute has no range; with depth 'shallow' or
\* 'medium' exactly one request is issued.
C18_AtMostTwoRequests ==
  /\ Len(intro.requests) <= 2
  /\ Len(intro.requests) >= 1 =>
       /\ intro.requests[1].queryType = "segmentMetadata"
       /\ intro.requests[1].analysisTypes =
            IF intro.depth = "deep" THEN <<"aggregators", "cardinality", "minmax">>
            ELSE <<"aggregators">>
  /\ Len(intro.requests) = 2 =>
       /\ intro.requests[2].queryType = "timeBoundary"
       /\ Len(intro.responses) >= 1
       /\ intro.depth = "deep"
       /\ intro.followUp # "answered" => IsNull(intro.attributes[1].range)
  /\ (intro.depth \in {"shallow", "medium"} /\ intro.pc # "start") =>
       Len(intro.requests) = 1

(***************************************************************************)
(* C19: the failures of an introspection.  A property of SpecIntrospect.   *)
(***************************************************************************)
\* the segmentMetadata response in hand is malformed or has no usable time
Unusable(res) ==
  \/ Len(res) = 0
  \/ "columns" \notin DOMAIN res[1]
  \/ ~\E k \in 1..Len(res[1].columns) :
        /\ res[1].columns[k].name = TIME_ATTRIBUTE
        /\ "errorMessage" \notin DOMAIN res[1].columns[k].value
        /\ res[1].columns[k].value.size >= 0

\* C19: a failed segmentMetadata request, or a malformed or time-less
\* segmentMetadata response, rejects the promise and no follow-up request
\* is issued; a failed timeBoundary follow-up (the request rejected, or its
\* response empty or malformed) never rejects: the promise resolves with
\* exactly the attributes computed from segmentMetadata, the range of the
\* time attribute still absent.
C19_FollowUpFailureSwallowed ==
  /\ (Settled /\ Len(intro.responses) = 0) =>
       intro.pc = "rejected" /\ Len(intro.requests) = 1
  /\ (Len(intro.responses) >= 1 /\ Unusable(intro.responses[1])) =>
       intro.pc = "rejected" /\ Len(intro.requests) = 1
  /\ intro.pc = "rejected" =>
       /\ Len(intro.requests) = 1
       /\ Len(intro.responses) = 0 \/ Unusable(intro.responses[1])
  /\ intro.followUp \in {"rejected", "malformed"} =>
       /\ intro.pc = "resolved"
       /\ intro.attributes =
            segmentMetadataPostProcess(intro.timeAttribute, intro.responses[1]).attributes
       /\ IsNull(intro.attributes[1].range)

\* the follow-up answered with an empty array and the promise resolved
C19_Witness ==
  /\ intro.pc = "resolved"
  /\ intro.followUp = "malformed"
  /\ Len(intro.responses) = 2
  /\ intro.responses[2] = <<>>
  /\ Len(intro.attributes) = 2

(***************************************************************************)
(* C20: what segmentMetadataPostProcess returns.  A property of            *)
(* SpecIntrospect, on the response its second step has processed.          *)
(***************************************************************************)
IsUnsplitable(a) == "unsplitable" \in DOMAIN a /\ a.unsplitable

\* the column an attribute past the first was made from
ColumnNamed(res, name) ==
  res[1].columns[CHOOSE k \in 1..Len(res[1].columns) : res[1].columns[k].name = name].value

PostProcessed(timeAttribute, res, out) ==
  /\ out.ok <=> ~Unusable(res)
  /\ out.ok =>
       /\ Len(out.attributes) >= 1
       /\ out.attributes[1].nativeType = "__time"
       /\ out.attributes[1].name = timeAttribute
       /\ out.attributes[1].type = "TIME"
       /\ \A k \in 2..Len(out.attributes) :
            /\ out.attributes[k].nativeType # "__time"
            /\ out.attributes[k].name # timeAttribute
            /\ out.attributes[k].name # TIME_ATTRIBUTE
            /\ out.attributes[k].type = "NUMBER" =>
                 (IsUnsplitable(out.attributes[k]) <=>
                    /\ "aggregators" \in DOMAIN res[1]
                    /\ \E j \in 1..Len(res[1].aggregators) :
                         res[1].aggregators[j].name = out.attributes[k].name)
            /\ ColumnNamed(res, out.attributes[k].name).type \in SketchTypes =>
                 out.attributes[k].type = "NULL" /\ IsUnsplitable(out.attributes[k])
       /\ \A j \in 1..Len(res[1].columns) :
            (/\ res[1].columns[j].name \notin {TIME_ATTRIBUTE, timeAttribute}
             /\ "errorMessage" \notin DOMAIN res[1].columns[j].value
             /\ res[1].columns[j].value.size >= 0) =>
              \E k \in 2..Len(out.attributes) :
                out.attributes[k].name = res[1].columns[j].name

\* C20: segmentMetadataPostProcess fails, or returns attributes of which
\* exactly one has nativeType '__time': the first, named timeAttribute and
\* typed TIME, whatever the order of the columns; it fails exactly when the
\* response has no columns or no usable '__time' column (missing, with an
\* errorMessage, or of size < 0); a non-time column named timeAttribute is
\* left out; a numeric column is unsplitable exactly when an aggregator has
\* its name; hyperUnique, approximateHistogram and sketch columns are typed
\* NULL and unsplitable.
C20_TimeAttributeFirst ==
  Len(intro.responses) >= 1 =>
    PostProcessed(intro.timeAttribute, intro.responses[1],
                  segmentMetadataPostProcess(intro.timeAttribute, intro.responses[1]))

\* the time column came second in the response and first in the attributes
C20_Witness ==
  /\ intro.pc = "resolved"
  /\ Len(intro.responses) >= 1
  /\ Len(intro.responses[1]) = 1
  /\ "columns" \in DOMAIN intro.responses[1][1]
  /\ Len(intro.responses[1][1].columns) = 2
  /\ intro.responses[1][1].columns[2].name = TIME_ATTRIBUTE
  /\ Len(intro.attributes) = 2
  /\ intro.attributes[1].nativeType = "__time"
  /\ IsUnsplitable(intro.attributes[2])

(***************************************************************************)
(* C21: the order and the columns of the scan query.                       *)
(***************************************************************************)
\* a raw call that got past the flag check and the lowering of the filter
ReachesScan ==
  /\ Planned
  /\ ext.mode = "raw"
  /\ ext.allowSelectQueries
  /\ filterToDruid(ext, ext.filter).ok

SortOnTimeAttribute == ~IsNull(ext.sort) /\ ext.sort.expression.name = ext.timeAttribute

SelectedNames ==
  [i \in 1..Len(getSelectedAttributes(ext)) |-> getSelectedAttributes(ext)[i].name]

Occurrences(seq, x) == Cardinality({i \in 1..Len(seq) : seq[i] = x})

\* C21: in raw mode with allowSelectQueries set, when the sort key is the
\* time attribute and the selected attributes include it (through a select,
\* or because no select narrows the attributes) the scan query has order =
\* sort.direction and '__time' exactly once in columns, the selected names
\* coming first; when the sort key is absent or not the time attribute there
\* is no order and columns are the selected names in order.
C21_ScanOrderAndColumns ==
  ReachesScan =>
    IF ~SortOnTimeAttribute
    THEN /\ result.ok
         /\ "order" \notin DOMAIN result.query
         /\ result.query.columns = SelectedNames
    ELSE SeqContains(SelectedNames, ext.timeAttribute) =>
           /\ result.ok
           /\ result.query.order = ext.sort.direction
           /\ Occurrences(result.query.columns, TIME_ATTRIBUTE) = 1
           /\ SubSeq(result.query.columns, 1, Len(SelectedNames)) = SelectedNames
           /\ Len(result.query.columns) <= Len(SelectedNames) + 1

\* the same, for the calls whose External has a select
C21_WithSelect ==
  ~IsNull(ext.select) => C21_ScanOrderAndColumns

(***************************************************************************)
(* C22: the metric and the threshold of a topN query.                      *)
(***************************************************************************)
TopNPlan == Emitted /\ ext.mode = "split" /\ result.query.queryType = "topN"

SortIsOnKey == ~IsNull(ext.sort) /\ hasKey(ext.split, ext.sort.expression.name)

SortIsOnApply ==
  /\ ~IsNull(ext.sort)
  /\ ~hasKey(ext.split, ext.sort.expression.name)
  /\ AppliesNamed(ext, ext.sort.expression.name) # <<>>

NumericKey == KeyExpression(ext).type \in {"NUMBER", "NUMBER_RANGE"}

InvertedIf(condition, metric) ==
  IF condition THEN [type |-> "inverted", metric |-> metric] ELSE metric

C22_WitnessApply ==
  /\ TopNPlan
  /\ SortIsOnApply
  /\ ext.limit # <<>>
  /\ result.query.threshold = ext.limit[1]
  /\ result.query.metric = [type |-> "metric", metric |-> ext.sort.expression.name]

(***************************************************************************)
(* SQLExternal (src/external/sqlExternal.ts).  The SQL string is kept as    *)
(* the sequence of its lines, query.join('\n'): a line that opens a clause  *)
(* carries the clause's keyword, a line that continues one carries none.    *)
(***************************************************************************)
Line(keyword, text) == [keyword |-> keyword, text |-> text]

\* if (withQuery): an absent and an empty string are both falsy
withQuerySet(e) == e.withQuery # <<>> /\ e.withQuery[1] # ""

dropOriginInfo(a) == [name |-> a.name, type |-> a.type]

\* SortExpression.getSQL and LimitExpression.getSQL
sortGetSQL(sort) == Line("ORDER BY", <<sort.expression, sort.direction>>)

limitGetSQL(limit) == Line("LIMIT", limit)

\* dialect.emptyGroupBy()
emptyGroupBy == Line("GROUP BY", <<"''">>)

\* getFrom (lines 85-92)
getFrom(e) ==
  IF withQuerySet(e) THEN Line("FROM", <<"__with__", "AS", "t">>)
  ELSE Line("FROM", <<e.source, "AS", "t">>)

\* the inflaters of case 'raw' (lines 122-139)
RECURSIVE sqlRawInflaters(_)
sqlRawInflaters(attributes) ==
  IF attributes = <<>> THEN <<>>
  ELSE (IF Head(attributes).type \in {"BOOLEAN", "TIME", "SET/STRING"}
        THEN <<dropOriginInfo(Head(attributes))>> ELSE <<>>)
       \o sqlRawInflaters(Tail(attributes))

\* the query without the ORDER BY and LIMIT lines
SQLExternal_sortless(e) ==
  LET with == IF withQuerySet(e) THEN <<Line("WITH", <<"__with__", "AS", e.withQuery[1]>>)>>
              ELSE <<>>
      from == IF e.filter # ExprTRUE THEN <<getFrom(e), Line("WHERE", e.filter)>>
              ELSE <<getFrom(e)>>
      selected == [i \in 1..Len(getSelectedAttributes(e)) |->
                     dropOriginInfo(getSelectedAttributes(e)[i])]
      applyLines == [i \in 1..Len(e.applies) |-> Line("", e.applies[i])]
      keyLines == [i \in 1..Len(e.split.splits) |-> Line("", e.split.splits[i])]
      having == IF e.havingFilter # ExprTRUE THEN <<Line("HAVING", e.havingFilter)>>
                ELSE <<>>
      start == with \o <<Line("SELECT", <<>>)>>
  IN CASE e.mode = "raw" ->
            start \o <<Line("", [i \in 1..Len(selected) |-> selected[i].name])>> \o from
       [] e.mode = "value" ->
            start \o <<Line("", ApplyEx(MainRef, VALUE_NAME, e.valueExpression))>>
                  \o from \o <<emptyGroupBy>>
       [] e.mode = "total" -> start \o applyLines \o from \o <<emptyGroupBy>>
       [] OTHER ->
            start \o keyLines \o applyLines \o from
                  \o <<Line("GROUP BY", [i \in 1..Len(keyLines) |-> i])>> \o having

\* the query, were ORDER BY and LIMIT pushed in every mode
SQLExternal_getQueryAndPostTransform_SortEverywhere(e) ==
  LET sorted == IF ~IsNull(e.sort) THEN <<sortGetSQL(e.sort)>> ELSE <<>>
      limited == IF e.limit # <<>> THEN <<limitGetSQL(e.limit)>> ELSE <<>>
  IN IF e.mode \notin {"raw", "value", "total", "split"}
     THEN [ok |-> FALSE, error |-> "can not get query for mode"]
     ELSE [ok |-> TRUE, query |-> SQLExternal_sortless(e) \o sorted \o limited]

\* SQLExternal.getQueryAndPostTransform (lines 94-232)
SQLExternal_getQueryAndPostTransform(e) ==
  LET sorted == IF ~IsNull(e.sort) THEN <<sortGetSQL(e.sort)>> ELSE <<>>
      limited == IF e.limit # <<>> THEN <<limitGetSQL(e.limit)>> ELSE <<>>
      selected == [i \in 1..Len(getSelectedAttributes(e)) |->
                     dropOriginInfo(getSelectedAttributes(e)[i])]
  IN CASE e.mode = "raw" ->
            [ok |-> TRUE, query |-> SQLExternal_sortless(e) \o sorted \o limited,
             postTransform |-> [inflaters |-> sqlRawInflaters(selected),
                                attributes |-> selected]]
       [] e.mode = "value" ->
            [ok |-> TRUE, query |-> SQLExternal_sortless(e),
             postTransform |-> [kind |-> "value"]]
       [] e.mode = "total" ->
            [ok |-> TRUE, query |-> SQLExternal_sortless(e),
             postTransform |-> [inflaters |-> [i \in 1..Len(e.applies) |-> e.applies[i].name],
                                attributes |-> getSelectedAttributes(e), keys |-> <<>>,
                                zeroTotalApplies |-> e.applies]]
       [] e.mode = "split" ->
            [ok |-> TRUE, query |-> SQLExternal_sortless(e) \o sorted \o limited,
             postTransform |-> [inflaters |-> splitKeys(e.split),
                                attributes |-> getSelectedAttributes(e),
                                keys |-> splitKeys(e.split)]]
       [] OTHER -> [ok |-> FALSE, error |-> "can not get query for mode"]

SQLModes == {"raw", "value", "total", "split", "other"}

WithQueries == {<<>>, <<"">>, <<"SELECT 1">>}

InitSQL ==
  /\ \E m \in SQLModes, wq \in WithQueries, l \in Limits, sel \in Selects(TIME_ATTRIBUTE),
        f \in {ExprTRUE, isLiteral(Ref(NameC, "STRING"), "x")},
        h \in {ExprTRUE, overK},
        s \in {Null} \cup {SortEx(Ref(NameC, "STRING"), d) : d \in Directions} :
       ext = [withQuery |-> wq] @@
             [BaseExternal(TIME_ATTRIBUTE) EXCEPT
                !.mode = m, !.filter = f, !.havingFilter = h, !.sort = s, !.limit = l,
                !.select = sel,
                !.valueExpression = count(MainRef),
                !.applies = IF m = "value" THEN <<>>
                            ELSE <<ApplyEx(MainRef, NameK, count(MainRef))>>,
                !.split = SplitEx(MainRef, <<key(LabelA, Ref(NameC, "STRING"))>>)]
  /\ result = NotPlanned
  /\ calls = 0
  /\ stream = NoStream
  /\ intro = NoIntrospection

\* one call of getQueryAndPostTransform() on the SQL External
PlanSQL ==
  /\ calls < MaxCalls
  /\ result' = SQLExternal_getQueryAndPostTransform(ext)
  /\ calls' = calls + 1
  /\ UNCHANGED <<ext, stream, intro>>

NextSQL == PlanSQL

SpecSQL == InitSQL /\ [][NextSQL]_vars

(***************************************************************************)
(* C23: the clauses of the SQL query.                                      *)
(***************************************************************************)
ClauseRank(keyword) ==
  CASE keyword = "WITH" -> 1
    [] keyword = "SELECT" -> 2
    [] keyword = "FROM" -> 3
    [] keyword = "WHERE" -> 4
    [] keyword = "GROUP BY" -> 5
    [] keyword = "HAVING" -> 6
    [] keyword = "ORDER BY" -> 7
    [] keyword = "LIMIT" -> 8

\* the lines of the query that open a clause
Clauses(query) == SelectSeq(query, LAMBDA line : line.keyword # "")

HasClause(query, keyword) == \E i \in 1..Len(query) : query[i].keyword = keyword

InClauseOrder(clauses) ==
  \A i, j \in 1..Len(clauses) :
    i < j => ClauseRank(clauses[i].keyword) < ClauseRank(clauses[j].keyword)

\* C23: SQLExternal.getQueryAndPostTransform emits its clauses in the order
\* WITH, SELECT, FROM, WHERE, GROUP BY, HAVING, ORDER BY, LIMIT in every
\* mode; WITH is there exactly when withQuery is set, and FROM then reads
\* __with__; WHERE exactly when the filter is not TRUE; HAVING exactly in
\* split mode with a having filter that is not TRUE; ORDER BY and LIMIT
\* exactly in raw and split mode with a sort, respectively a limit; an
\* unknown mode fails.
C23_ClauseOrder ==
  Planned =>
    IF ext.mode \notin {"raw", "value", "total", "split"} THEN ~result.ok
    ELSE /\ result.ok
         /\ InClauseOrder(Clauses(result.query))
         /\ HasClause(result.query, "SELECT")
         /\ HasClause(result.query, "FROM")
         /\ HasClause(result.query, "WITH") <=> withQuerySet(ext)
         /\ Clauses(result.query)[1].keyword = IF withQuerySet(ext) THEN "WITH" ELSE "SELECT"
         /\ \A i \in 1..Len(result.query) :
              result.query[i].keyword = "FROM" =>
                (result.query[i].text[1] = "__with__" <=> withQuerySet(ext))
         /\ HasClause(result.query, "WHERE") <=> ext.filter # ExprTRUE
         /\ HasClause(result.query, "HAVING") <=>
              (ext.mode = "split" /\ ext.havingFilter # ExprTRUE)
         /\ HasClause(result.query, "ORDER BY") <=>
              (ext.mode \in {"raw", "split"} /\ ~IsNull(ext.sort))
         /\ HasClause(result.query, "LIMIT") <=>
              (ext.mode \in {"raw", "split"} /\ ext.limit # <<>>)

\* a split query with every clause
C23_Witness ==
  /\ Planned
  /\ ext.mode = "split"
  /\ result.ok
  /\ [i \in 1..Len(Clauses(result.query)) |-> Clauses(result.query)[i].keyword]
       = <<"WITH", "SELECT", "FROM", "WHERE", "GROUP BY", "HAVING", "ORDER BY", "LIMIT">>

\* a total query whose External has a sort and a limit
C23_WitnessTotal ==
  /\ Planned
  /\ ext.mode = "total"
  /\ ~IsNull(ext.sort)
  /\ ext.limit # <<>>
  /\ result.ok
  /\ ~HasClause(result.query, "ORDER BY")

(***************************************************************************)
(* C24: the split keys of a re-split plan.                                 *)
(***************************************************************************)
\* the call builds the inner and the outer External of a re-split plan
BuildsResplit(n) == n.nested /\ Len(n.built) = 2

\* the keys of the one inner split the re-split aggregates share
ResplitKeys(e) == CHOOSE keys \in ResplitSplits(e) : TRUE

OwnKeys(e) == IF IsNull(e.split) THEN <<>> ELSE e.split.splits

IntermediateNames(splitCount) == {<<"s">> \o NumToChars(i) : i \in 0..(splitCount - 1)}

\* the keys that need an intermediate: every key of the re-split split
\* (tagged 1) and every own key equal to none of them (tagged 2)
NeedIntermediate(e) ==
  {<<1, k>> : k \in 1..Len(ResplitKeys(e))} \cup
  {<<2, k>> : k \in {j \in 1..Len(OwnKeys(e)) :
                       \A r \in 1..Len(ResplitKeys(e)) :
                         ResplitKeys(e)[r].expression # OwnKeys(e)[j].expression}}

NeededExpression(e, t) ==
  IF t[1] = 1 THEN ResplitKeys(e)[t[2]].expression ELSE OwnKeys(e)[t[2]].expression

\* outer is the expression of an outer key over the intermediate s that
\* names inner in the inner split
OuterOver(outer, inner, s) ==
  IF inner.op \in {"timeBucket", "numberBucket"}
  THEN outer = [inner EXCEPT !.operand = Ref(s, "undefined")]
  ELSE outer = Ref(s, "undefined")

ResplitKeysDivided(e, ie, oe) ==
  /\ IF IsNull(e.split) THEN IsNull(oe.split)
     ELSE splitKeys(oe.split) = splitKeys(e.split)
  /\ {ie.split.splits[i].name : i \in 1..Len(ie.split.splits)}
       = IntermediateNames(Len(ie.split.splits))
  /\ \E f \in [NeedIntermediate(e) -> 1..Len(ie.split.splits)] :
       /\ \A s, t \in NeedIntermediate(e) : f[s] = f[t] => s = t
       /\ \A t \in NeedIntermediate(e) :
            ie.split.splits[f[t]].expression = NeededExpression(e, t)
  /\ \A k \in 1..Len(OwnKeys(e)) :
       \E i \in 1..Len(ie.split.splits) :
         /\ ie.split.splits[i].expression = OwnKeys(e)[k].expression
         /\ OuterOver(oe.split.splits[k].expression, ie.split.splits[i].expression,
                      ie.split.splits[i].name)
         /\ \A r \in AllNodes(oe.split.splits[k].expression) :
              IsRef(r) => r.name = ie.split.splits[i].name
         /\ Cardinality({a \in 1..Len(oe.rawAttributes) :
                           oe.rawAttributes[a].name = ie.split.splits[i].name}) = 1
         /\ \A a \in 1..Len(oe.rawAttributes) :
              oe.rawAttributes[a].name = ie.split.splits[i].name =>
                oe.rawAttributes[a].type = ie.split.splits[i].expression.type

\* C24: in a re-split plan the outer split has exactly the key names of the
\* original split; every key of the re-split split and every original key
\* equal by expression to none of them has an intermediate name of its own
\* in the inner split, whose names are s0, s1, ...; each outer key's
\* expression refers only to an intermediate that the outer rawAttributes
\* declare with the type of the inner expression, re-bucketed for a
\* TimeBucket or NumberBucket key and a bare ref otherwise.
C24_ResplitKeys ==
  (Planned /\ ReachesNested(ext) /\ HasResplit(ext)) =>
    \A n \in {nestedGroupByIfNeeded(ext)} :
      BuildsResplit(n) => ResplitKeysDivided(ext, n.built[1], n.built[2])

\* a re-split plan of a split by a key the re-split split does not have
C24_Witness ==
  /\ Emitted
  /\ HasResplit(ext)
  /\ ext.mode = "split"
  /\ KeyExpression(ext).op = "numberBucket"
  /\ Len(result.query.dataSource.query.dimensions) = 2
  /\ Len(result.query.dimensions) = 1

\* a re-split plan of a split by the key of the re-split split
C24_WitnessShared ==
  /\ Emitted
  /\ HasResplit(ext)
  /\ ext.mode = "split"
  /\ KeyExpression(ext).op = "timeBucket"
  /\ Len(result.query.dataSource.query.dimensions) = 1

(***************************************************************************)
(* C25: the aggregates pulled through a re-split plan.                     *)
(***************************************************************************)
CustomResplitError == "can not currently combine custom aggregation and re-split"

\* the aggregates the substitute of lines 1415-1481 meets in apply i, in
\* the order it meets them
MetAggregates(e, i) == aggregatesOf(effectiveApplies(e)[i].expression)

MeetsCustomAggregate(e) ==
  \E i \in 1..Len(effectiveApplies(e)) :
    \E p \in 1..Len(MetAggregates(e, i)) : MetAggregates(e, i)[p].op = "customAggregate"

\* how many of the first p aggregates of apply i are no re-split aggregates
PulledBefore(e, i, p) ==
  Cardinality({q \in 1..p : ~IsResplitAggregate(MetAggregates(e, i)[q])})

TempName(i, c) == <<"a">> \o NumToChars(i) \o <<"_">> \o NumToChars(c)

OuterApplies(e, oe) ==
  IF appliesDefined(e) THEN oe.applies
  ELSE <<ApplyEx(MainRef, VALUE_NAME, oe.valueExpression)>>

\* the names the outer query can refer to: those of the inner applies and
\* of the inner split keys
IntermediateColumns(ie) ==
  {ie.applies[k].name : k \in 1..Len(ie.applies)} \cup
  {ie.split.splits[k].name : k \in 1..Len(ie.split.splits)}

\* an aggregate is pulled through under the name temp, which is a<i>_<c>
\* for the c-th such aggregate of apply i and so differs from the name of
\* every other one
PulledThrough(ie, agg, outerAgg, temp) ==
  /\ \E k \in 1..Len(ie.applies) : ie.applies[k] = ApplyEx(MainRef, temp, agg)
  /\ outerAgg = IF agg.op = "count"
                THEN Unary("sum", MainRef, Ref(temp, "undefined"), "NUMBER")
                ELSE [agg EXCEPT !.operand = MainRef, !.expression = Ref(temp, "undefined")]

AggregatesPulled(e, ie, oe) ==
  \A i \in 1..Len(effectiveApplies(e)) :
    /\ Len(aggregatesOf(OuterApplies(e, oe)[i].expression)) = Len(MetAggregates(e, i))
    /\ \A p \in 1..Len(MetAggregates(e, i)) :
         ~IsResplitAggregate(MetAggregates(e, i)[p]) =>
           PulledThrough(ie, MetAggregates(e, i)[p],
                         aggregatesOf(OuterApplies(e, oe)[i].expression)[p],
                         TempName(i - 1, PulledBefore(e, i, p) - 1))
    /\ \A r \in AllNodes(OuterApplies(e, oe)[i].expression) :
         (IsRef(r) /\ r # MainRef) => r.name \in IntermediateColumns(ie)

\* C25: in a re-split plan every aggregate of an apply that is not itself a
\* re-split aggregate is moved to the inner query under a fresh intermediate
\* name and replaced in the outer expression: count by the sum of the
\* intermediate, any other chainable-unary aggregate by the same aggregate
\* over the intermediate; a custom aggregate makes planning fail with 'can
\* not currently combine custom aggregation and re-split'; after the rewrite
\* no outer apply has an aggregate over an original column.
C25_AggregatesPulledThrough ==
  (Planned /\ ReachesNested(ext) /\ HasResplit(ext)
     /\ Cardinality(ResplitSplits(ext)) = 1) =>
    IF MeetsCustomAggregate(ext)
    THEN ~result.ok /\ result.error = CustomResplitError
    ELSE \A n \in {nestedGroupByIfNeeded(ext)} :
           /\ Len(n.built) >= 1
           /\ Len(n.built) = 2 => AggregatesPulled(ext, n.built[1], n.built[2])

\* a sum pulled through next to a re-split aggregate of the same apply
C25_Witness ==
  /\ Emitted
  /\ HasResplit(ext)
  /\ ext.mode = "value"
  /\ Len(MetAggregates(ext, 1)) = 2
  /\ MetAggregates(ext, 1)[2].op = "sum"
  /\ \E k \in 1..Len(result.query.dataSource.query.aggregations) :
       result.query.dataSource.query.aggregations[k].name = TempName(0, 0)

\* a custom aggregate next to a re-split aggregate
C25_WitnessCustom ==
  /\ Planned
  /\ HasResplit(ext)
  /\ MeetsCustomAggregate(ext)
  /\ result = [ok |-> FALSE, error |-> CustomResplitError]

(***************************************************************************)
(* RefExpression.changeInTypeContext (lines 271-311).  A type context is    *)
(* kept as the sequence of its frames: the context itself first, then its   *)
(* parent, and so on to the root; a frame's datasetType is the sequence of  *)
(* its properties in key order.                                            *)
(***************************************************************************)
\* the most frames of a type context
MaxDepth == 2

RefExpression(name, nest, type, ignoreCase) ==
  [op |-> "ref", name |-> name, nest |-> nest, type |-> type, ignoreCase |-> ignoreCase]

toLowerCase(name) == [i \in 1..Len(name) |-> IF name[i] = "A" THEN "a" ELSE name[i]]

hasOwnProp(datasetType, name) ==
  \E k \in 1..Len(datasetType) : datasetType[k].name = name

\* findPropertyCI (lines 158-162): the first key that matches, <<>> if none
findPropertyCI(datasetType, name) ==
  LET hits == {k \in 1..Len(datasetType) :
                 toLowerCase(datasetType[k].name) = toLowerCase(name)}
  IN IF hits = {} THEN <<>>
     ELSE <<datasetType[CHOOSE k \in hits : \A j \in hits : k <= j].name>>

\* the while loop of lines 286-289 from frame k on: the first frame that
\* has myName, 0 when the chain ends without one
RECURSIVE lookUp(_, _, _)
lookUp(typeContext, k, myName) ==
  IF k > Len(typeContext) THEN 0
  ELSE IF hasOwnProp(typeContext[k].datasetType, myName) THEN k
  ELSE lookUp(typeContext, k + 1, myName)

typeOfProperty(datasetType, name) ==
  datasetType[CHOOSE k \in 1..Len(datasetType) : datasetType[k].name = name].type

\* lines 295-310, with every frame's own nest: the returned ref says nest
\* although the name was found nestDiff frames further up
changeInTypeContext_KeepNest(ref, typeContext) ==
  LET typed(myName, found, myType) ==
        IF ref.type # "undefined" /\ ref.type # myType
        THEN [ok |-> FALSE, kind |-> "TypeError", error |-> "type mismatch"]
        ELSE IF ref.type = "undefined" \/ found > ref.nest + 1 \/ ref.ignoreCase = <<TRUE>>
        THEN [ok |-> TRUE, ref |-> RefExpression(myName, ref.nest, myType, <<>>)]
        ELSE [ok |-> TRUE, ref |-> ref]
      located(myName, found) ==
        IF found = 0 THEN [ok |-> FALSE, kind |-> "Error", error |-> "could not resolve"]
        ELSE typed(myName, found, typeOfProperty(typeContext[found].datasetType, myName))
      named(myName) ==
        IF myName = <<>> THEN [ok |-> FALSE, kind |-> "Error", error |-> "could not resolve"]
        ELSE located(myName[1], lookUp(typeContext, ref.nest + 1, myName[1]))
  IN IF ref.nest + 1 > Len(typeContext)
     THEN [ok |-> FALSE, kind |-> "Error", error |-> "went too deep"]
     ELSE named(IF ref.ignoreCase = <<TRUE>>
                THEN findPropertyCI(typeContext[ref.nest + 1].datasetType, ref.name)
                ELSE <<ref.name>>)

\* changeInTypeContext (lines 271-311)
changeInTypeContext(ref, typeContext) ==
  LET typed(myName, found, myType) ==
        IF ref.type # "undefined" /\ ref.type # myType
        THEN [ok |-> FALSE, kind |-> "TypeError", error |-> "type mismatch"]
        ELSE IF ref.type = "undefined" \/ found > ref.nest + 1 \/ ref.ignoreCase = <<TRUE>>
        THEN [ok |-> TRUE, ref |-> RefExpression(myName, found - 1, myType, <<>>)]
        ELSE [ok |-> TRUE, ref |-> ref]
      located(myName, found) ==
        IF found = 0 THEN [ok |-> FALSE, kind |-> "Error", error |-> "could not resolve"]
        ELSE typed(myName, found, typeOfProperty(typeContext[found].datasetType, myName))
      named(myName) ==
        IF myName = <<>> THEN [ok |-> FALSE, kind |-> "Error", error |-> "could not resolve"]
        ELSE located(myName[1], lookUp(typeContext, ref.nest + 1, myName[1]))
  IN IF ref.nest + 1 > Len(typeContext)
     THEN [ok |-> FALSE, kind |-> "Error", error |-> "went too deep"]
     ELSE named(IF ref.ignoreCase = <<TRUE>>
                THEN findPropertyCI(typeContext[ref.nest + 1].datasetType, ref.name)
                ELSE <<ref.name>>)

PropertyNames == {<<"a">>, <<"A">>}

ValueTypes == {"STRING", "NUMBER"}

\* the datasetTypes: no, one or two properties, in either key order
DatasetTypes ==
  {<<>>} \cup
  {<<[name |-> n, type |-> t]>> : n \in PropertyNames, t \in ValueTypes} \cup
  {dt \in {<<[name |-> n, type |-> t], [name |-> m, type |-> u]>> :
              n \in PropertyNames, m \in PropertyNames, t \in ValueTypes, u \in ValueTypes} :
     dt[1].name # dt[2].name}

TypeContexts ==
  UNION {[1..d -> {[type |-> "DATASET", datasetType |-> dt] : dt \in DatasetTypes}] :
           d \in 1..MaxDepth}

RefExpressions ==
  {RefExpression(n, nest, t, ic) :
     n \in PropertyNames, nest \in 0..MaxDepth, t \in ValueTypes \cup {"undefined"},
     ic \in {<<>>, <<FALSE>>, <<TRUE>>}}

InitResolve ==
  /\ \E ref \in RefExpressions, typeContext \in TypeContexts :
       ext = [ref |-> ref, typeContext |-> typeContext]
  /\ result = NotPlanned
  /\ calls = 0
  /\ stream = NoStream
  /\ intro = NoIntrospection

\* one call of ref.changeInTypeContext(typeContext)
Resolve ==
  /\ calls < MaxCalls
  /\ result' = changeInTypeContext(ext.ref, ext.typeContext)
  /\ calls' = calls + 1
  /\ UNCHANGED <<ext, stream, intro>>

NextResolve == Resolve

SpecResolve == InitResolve /\ [][NextResolve]_vars

(***************************************************************************)
(* C26: what changeInTypeContext returns.                                  *)
(***************************************************************************)
\* the frames from `nest` generations up on that have the name
Owners(typeContext, nest, name) ==
  {k \in (nest + 1)..Len(typeContext) : hasOwnProp(typeContext[k].datasetType, name)}

\* the name the ref stands for: with ignoreCase the first key of the frame
\* `nest` generations up that matches, <<>> if none
StandsFor(ref, typeContext) ==
  IF ref.ignoreCase = <<TRUE>>
  THEN findPropertyCI(typeContext[ref.nest + 1].datasetType, ref.name)
  ELSE <<ref.name>>

\* (name, nest) of the returned ref designates the nearest frame from the
\* given nest on that owns the name, and the ref has that frame's type
Designates(given, returned, typeContext) ==
  /\ returned.nest >= given.nest
  /\ returned.nest + 1 \in Owners(typeContext, given.nest, returned.name)
  /\ \A k \in Owners(typeContext, given.nest, returned.name) : returned.nest + 1 <= k
  /\ returned.type = typeOfProperty(typeContext[returned.nest + 1].datasetType, returned.name)
  /\ <<returned.name>> = StandsFor(given, typeContext)

ResolvedAsStated(ref, typeContext, out) ==
  /\ out.ok => /\ Designates(ref, out.ref, typeContext)
               /\ changeInTypeContext(out.ref, typeContext) = out
  /\ ref.nest >= Len(typeContext) => (~out.ok /\ out.kind = "Error")
  /\ (\A k \in 1..Len(typeContext) :
        IF ref.ignoreCase = <<TRUE>>
        THEN findPropertyCI(typeContext[k].datasetType, ref.name) = <<>>
        ELSE ~hasOwnProp(typeContext[k].datasetType, ref.name)) =>
       (~out.ok /\ out.kind = "Error")
  /\ (/\ ref.nest < Len(typeContext)
      /\ ref.type # "undefined"
      /\ \E name \in PropertyNames :
           /\ <<name>> = StandsFor(ref, typeContext)
           /\ Owners(typeContext, ref.nest, name) # {}
           /\ \A k \in Owners(typeContext, ref.nest, name) :
                (\A j \in Owners(typeContext, ref.nest, name) : k <= j) =>
                  typeOfProperty(typeContext[k].datasetType, name) # ref.type) =>
       (~out.ok /\ out.kind = "TypeError")

\* C26: changeInTypeContext fails, or returns a ref whose (name, nest)
\* designates a frame of the chain that owns the name and whose type is that
\* frame's type for the name, the nearest such frame from `nest` generations
\* up on; it fails with a TypeError when the declared type differs from the
\* resolved one, and with an error when nest exceeds the depth of the chain
\* or no frame has the name; resolving the returned ref again in the same
\* context returns an equal ref.
C26_ResolvedRef ==
  Planned => ResolvedAsStated(ext.ref, ext.typeContext, result)

\* an untyped ref found one frame up
C26_Witness ==
  /\ Planned
  /\ result.ok
  /\ ext.ref.type = "undefined"
  /\ ext.ref.nest = 0
  /\ result.ref.nest = 1
  /\ result.ref.type = "NUMBER"

\* a ref whose declared type is not the one of the frame
C26_WitnessTypeError ==
  /\ Planned
  /\ ~result.ok
  /\ result.kind = "TypeError"

(***************************************************************************)
(* C27: no conjunct of the having filter is lost.                          *)
(***************************************************************************)
HavingConjuncts(hf) == IF hf = ExprTRUE THEN <<>> ELSE Conjuncts(hf)

\* the having filter the query carries
EmittedHaving(q) == IF "having" \in DOMAIN q THEN q.having.of ELSE ExprTRUE

\* the dimension filters by what the conjunct says
PushedInto(c, d) ==
  \/ /\ d.type = "regexFiltered"
     /\ c.op = "match"
     /\ d.pattern = c.regexp
  \/ /\ d.type = "listFiltered"
     /\ c.op = "is"
     /\ d.values = IF c.expression.type = "SET/STRING" THEN c.expression.value
                   ELSE <<c.expression.value>>
  \/ /\ d.type = "listFiltered"
     /\ c.op = "in"
     /\ d.values = c.expression.value

IsFiltered(d) == d.type \in {"regexFiltered", "listFiltered"}

\* the conjuncts expressionToDimensionInflaterHaving could push for a key
Pushable(e, k) ==
  SelectSeq(HavingConjuncts(e.havingFilter),
            LAMBDA c : /\ e.split.splits[k].expression.type = "SET/STRING"
                       /\ constrainsLabel(c, e.split.splits[k].name))

HavingKept(e, q) ==
  /\ \A i \in 1..Len(HavingConjuncts(e.havingFilter)) :
       \A c \in {HavingConjuncts(e.havingFilter)[i]} :
         \A pushes \in {{k \in 1..Len(DimensionsOf(q)) : PushedInto(c, DimensionsOf(q)[k])}} :
           IF SeqContains(HavingConjuncts(EmittedHaving(q)), c) THEN pushes = {}
           ELSE Cardinality(pushes) = 1
  /\ Len(HavingConjuncts(EmittedHaving(q))) + Cardinality({k \in 1..Len(DimensionsOf(q)) :
                                                             IsFiltered(DimensionsOf(q)[k])})
       = Len(HavingConjuncts(e.havingFilter))
  /\ q.queryType = "topN" => EmittedHaving(q) = ExprTRUE
  /\ q.queryType = "timeseries" => e.havingFilter = ExprTRUE
  /\ q.queryType \in {"topN", "timeseries"} => "having" \notin DOMAIN q
  /\ \A k \in 1..Len(e.split.splits) :
       Len(Pushable(e, k)) > 1 =>
         /\ \A j \in 1..Len(DimensionsOf(q)) : ~IsFiltered(DimensionsOf(q)[j])
         /\ EmittedHaving(q) = e.havingFilter

\* C27: for every successful split plan each conjunct of the having filter
\* is either pushed into exactly one filtered dimension or part of the
\* leftover emitted as the groupBy 'having'; a topN is emitted only when the
\* leftover is TRUE and a timeseries only when the having filter is TRUE;
\* when more than one conjunct could be pushed for the same label nothing is
\* pushed and the whole having filter stays as leftover.
C27_HavingNeverDropped ==
  (Emitted /\ ext.mode = "split") => HavingKept(ext, result.query)

\* one conjunct pushed into the dimension, the other emitted as having
C27_Witness ==
  /\ Emitted
  /\ ext.mode = "split"
  /\ Len(HavingConjuncts(ext.havingFilter)) = 2
  /\ result.query.queryType = "groupBy"
  /\ result.query.dimensions[1].type = "regexFiltered"
  /\ EmittedHaving(result.query) = overK

\* two conjuncts on the label of a SET/STRING key: both stay
C27_WitnessBoth ==
  /\ Emitted
  /\ ext.mode = "split"
  /\ Len(Pushable(ext, 1)) = 2
  /\ EmittedHaving(result.query) = ext.havingFilter

(***************************************************************************)
(* C28: where a re-split plan applies filter, having, sort and limit.      *)
(***************************************************************************)
ResplitPlan == Emitted /\ ReachesNested(ext) /\ HasResplit(ext)

\* the filter of the External is applied in the inner query and not in the
\* outer one
FilterOnlyInner(e, q) ==
  \A lowered \in {filterToDruid(e, e.filter)} :
    /\ q.dataSource.query.intervals = lowered.intervals
    /\ "filter" \in DOMAIN q.dataSource.query <=> "filter" \in DOMAIN lowered
    /\ "filter" \in DOMAIN lowered => q.dataSource.query.filter = lowered.filter
    /\ q.intervals = TRUE_INTERVAL
    /\ "filter" \notin DOMAIN q

\* sort and limit are applied in the outer query and not in the inner one
SortAndLimitOnlyOuter(e, q) ==
  /\ "limitSpec" \notin DOMAIN q.dataSource.query
  /\ (~IsNull(e.sort) \/ e.limit # <<>>) <=> "limitSpec" \in DOMAIN q
  /\ e.limit # <<>> => q.limitSpec.limit = e.limit[1]
  /\ ~IsNull(e.sort) => q.limitSpec.columns[1].direction = e.sort.direction

\* the having filter is applied in the outer query and not in the inner one
HavingOnlyOuter(e, q) ==
  /\ e.mode = "split" => HavingKept(e, q)
  /\ "having" \notin DOMAIN q.dataSource.query
  /\ \A k \in 1..Len(DimensionsOf(q.dataSource.query)) :
       ~IsFiltered(DimensionsOf(q.dataSource.query)[k])

\* C28: in a re-split plan the External's filter is applied only in the
\* inner query, and its having filter, sort and limit only in the outer
\* query: the inner groupBy has no 'having' and no filtered dimension
\* derived from the having filter.
C28_HavingOnlyOuter ==
  ResplitPlan =>
    /\ FilterOnlyInner(ext, result.query)
    /\ SortAndLimitOnlyOuter(ext, result.query)
    /\ HavingOnlyOuter(ext, result.query)

\* the same but for the inner having: the filter is applied only in the
\* inner query, sort and limit only in the outer one, and the outer query
\* loses no conjunct of the having filter
C28_FilterSortLimit ==
  ResplitPlan =>
    /\ FilterOnlyInner(ext, result.query)
    /\ SortAndLimitOnlyOuter(ext, result.query)
    /\ ext.mode = "split" => HavingKept(ext, result.query)

\* the inner query of a re-split plan carries the having filter
C28_InnerHaving ==
  /\ ResplitPlan
  /\ ext.havingFilter = overK
  /\ EmittedHaving(result.query.dataSource.query) = overK
  /\ EmittedHaving(result.query) = overK

(***************************************************************************)
(* C29: the names of the inner query.                                      *)
(***************************************************************************)
Names(entries) == [k \in 1..Len(entries) |-> entries[k].name]

Distinct(names) == Cardinality({names[k] : k \in 1..Len(names)}) = Len(names)

\* the names of the inner applies and of the inner split keys
InnerNames(ie) == Names(ie.applies) \o Names(ie.split.splits)

\* C29: in a re-split plan the names of the inner applies and of the inner
\* split keys are pairwise distinct, and the outer rawAttributes declare
\* each of them exactly once, whatever the applies are.
C29_InnerNamesDistinct ==
  (Planned /\ ReachesNested(ext) /\ HasResplit(ext)) =>
    \A n \in {nestedGroupByIfNeeded(ext)} :
      BuildsResplit(n) =>
        /\ Distinct(InnerNames(n.built[1]))
        /\ Distinct(Names(n.built[2].rawAttributes))
        /\ {InnerNames(n.built[1])[k] : k \in 1..Len(InnerNames(n.built[1]))}
             = {n.built[2].rawAttributes[k].name : k \in 1..Len(n.built[2].rawAttributes)}

\* the same, for the plans with at most one re-split aggregate in an apply
\* and no inner apply named like a generated name
C29_DistinctUnlessShared ==
  (Planned /\ ReachesNested(ext) /\ HasResplit(ext)) =>
    \A n \in {nestedGroupByIfNeeded(ext)} :
      (/\ BuildsResplit(n)
       /\ \A i \in 1..Len(effectiveApplies(ext)) :
            /\ Len(SelectSeq(MetAggregates(ext, i), IsResplitAggregate)) <= 1
            /\ \A p \in 1..Len(MetAggregates(ext, i)) :
                 IsResplitAggregate(MetAggregates(ext, i)[p]) =>
                   MetAggregates(ext, i)[p].operand.name # <<"a", "0">>) =>
        /\ Distinct(InnerNames(n.built[1]))
        /\ Distinct(Names(n.built[2].rawAttributes))

\* two inner applies named x_0 in one planned query
C29_SharedName ==
  /\ Emitted
  /\ HasResplit(ext)
  /\ Cardinality({k \in 1..Len(result.query.dataSource.query.aggregations) :
                    result.query.dataSource.query.aggregations[k].name
                      = <<"x", "_", "0">>}) = 2

\* a pulled-through count named like the re-split apply a0_0
C29_GeneratedName ==
  /\ Planned
  /\ HasResplit(ext)
  /\ \E n \in {nestedGroupByIfNeeded(ext)} :
       /\ BuildsResplit(n)
       /\ Cardinality({k \in 1..Len(n.built[1].applies) :
                         n.built[1].applies[k].name = TempName(0, 0)}) = 2

(***************************************************************************)
(* C30. Planning terminates: the rewrite is entered again only on smaller  *)
(* re-split aggregates and never by the outer External.                    *)
(***************************************************************************)
\* the number of nodes of an expression
RECURSIVE Size(_)
Size(ex) ==
  1 + (IF HasOperand(ex) THEN Size(ex.operand) ELSE 0)
    + (IF HasExpression(ex) THEN Size(ex.expression) ELSE 0)

MaxOf(S) == CHOOSE m \in S : \A x \in S : x <= m

\* the number of splits of an expression
RECURSIVE SplitsIn(_)
SplitsIn(ex) ==
  (IF ex.op = "split" THEN 1 ELSE 0)
  + (IF HasOperand(ex) THEN SplitsIn(ex.operand) ELSE 0)
  + (IF HasExpression(ex) THEN SplitsIn(ex.expression) ELSE 0)

\* the most splits an apply holds
SplitsOf(e) ==
  MaxOf({SplitsIn(effectiveApplies(e)[i].expression) :
           i \in 1..Len(effectiveApplies(e))} \cup {0})

\* how many rewrites deep the planning of an External goes
RECURSIVE Rewrites(_)
RECURSIVE RewritesIn(_)
Rewrites(e) == IF ReachesNested(e) THEN RewritesIn(nestedGroupByIfNeeded(e)) ELSE 0

RewritesIn(n) ==
  IF ~n.nested \/ n.built = <<>> THEN 0
  ELSE 1 + MaxOf({Rewrites(n.built[k]) : k \in 1..Len(n.built)})

\* the outer External holds no split and is planned without a rewrite
OuterNeverRewrites(oe) ==
  /\ ~HoldsSplit(oe)
  /\ ~nestedGroupByIfNeeded(oe).nested

\* every re-split aggregate of the inner External is smaller than one of
\* the External it was built from
InnerSmaller(e, ie) ==
  \A t \in ResplitAggregates(ie) : \E from \in ResplitAggregates(e) : Size(t) < Size(from)

\* an apply holds a split and no aggregate parses as a re-split aggregate
NoneParses(e) == HoldsSplit(e) /\ ~HasResplit(e)

\* the plan of an External that needs no nested group-by
OrdinaryPlan(e) ==
  IF e.mode = "split"
  THEN splitQueryAndPostTransform(e, baseQuery(e, filterToDruid(e, e.filter)))
  ELSE aggregateQueryAndPostTransform(e, baseQuery(e, filterToDruid(e, e.filter)))

RewriteTerminates(e, n) ==
  /\ Rewrites(e) <= SplitsOf(e)
  /\ BuildsResplit(n) => OuterNeverRewrites(n.built[2])
  /\ (n.nested /\ n.built # <<>>) => InnerSmaller(e, n.built[1])

\* C30: the planning of an External goes through no more rewrites than an
\* apply of it holds splits: the outer External of a rewrite has no split in
\* its applies and is planned without a rewrite, every re-split aggregate
\* of the inner External is smaller than a re-split aggregate of the
\* External it was built from; and when an apply holds a split and no
\* aggregate parses as a re-split aggregate the rewrite returns null and the
\* ordinary plan is the result.
C30_PlanningTerminates ==
  (Planned /\ ReachesNested(ext)) =>
    \A n \in {nestedGroupByIfNeeded(ext)} :
      /\ RewriteTerminates(ext, n)
      /\ NoneParses(ext) => (~n.nested /\ result = OrdinaryPlan(ext))

\* the same where no custom aggregate stands beside a split that does not
\* parse; there the rewrite fails
C30_TerminatesUnlessCustom ==
  (Planned /\ ReachesNested(ext)) =>
    \A n \in {nestedGroupByIfNeeded(ext)} :
      /\ RewriteTerminates(ext, n)
      /\ (NoneParses(ext) /\ ~MeetsCustomAggregate(ext)) =>
           (~n.nested /\ result = OrdinaryPlan(ext))
      /\ (NoneParses(ext) /\ MeetsCustomAggregate(ext)) =>
           (n.nested /\ result = [ok |-> FALSE, error |-> CustomResplitError])

\* a rewrite inside the inner External of a rewrite
C30_RewrittenTwice == Planned /\ ReachesNested(ext) /\ Rewrites(ext) = 2

\* a split that does not parse, planned the ordinary way
C30_ReturnedNull ==
  /\ Planned /\ ReachesNested(ext) /\ NoneParses(ext)
  /\ ~nestedGroupByIfNeeded(ext).nested
  /\ result = OrdinaryPlan(ext)

\* a custom aggregate beside a split that does not parse
C30_CustomBesideSplit ==
  /\ Planned /\ ReachesNested(ext) /\ NoneParses(ext)
  /\ result = [ok |-> FALSE, error |-> CustomResplitError]

====
